---- MODULE Spec2Model ----
(***************************************************************************)
(* Model of the tools of the Google Docs MCP server: the formatting tools   *)
(* (apply-text-style, apply-paragraph-style, apply-list-style), the        *)
(* content tools (insert-text-at-index, delete-range, insert-page-break)   *)
(* and the basic tools (create-doc, update-doc, delete-doc), running       *)
(* against the external document store.                                    *)
(*                                                                         *)
(* A JavaScript string is a sequence of one-character strings, so that     *)
(* includes / indexOf / substr / parseInt are computed, not assumed.       *)
(* A handler is split at its awaits: the call, the return of               *)
(* documents.get, the return of documents.batchUpdate.  The store applies  *)
(* a batch whole or not at all, and nothing else writes to it.             *)
(***************************************************************************)
EXTENDS Integers, Sequences, FiniteSets, TLC

VARIABLES
    server,       \* the process: main's position, the clients handle, what is registered
    storeDoc,     \* the document tree the store holds (documents.get returns it)
    storeRev,     \* number of batches the store has applied
    storeFiles,   \* the files of the store: the document's, and those created
    storeLastEdit, \* the last batch that changed the text of the document
    before,       \* the store as it was when the running invocation was called
    pc,           \* position of the handler: idle, get, create, batchUpdate, delete, done
    tool,         \* name of the tool being served
    args,         \* arguments of the invocation, after the schema's defaults
    doc,          \* doc.data of this invocation (NoDoc before the get returns)
    targetRange,  \* targetRange / paragraphRange of the handler (Null: null)
    requests,     \* requests array handed to documents.batchUpdate
    calls,        \* store calls made by this invocation, in order
    result        \* value returned by the handler (NoResult while running)

vars == <<server, storeDoc, storeRev, storeFiles, storeLastEdit, before, pc, tool, args, doc, targetRange,
          requests, calls, result>>

(***************************************************************************)
(* Bounds                                                                  *)
(***************************************************************************)
MaxDocLen == 3        \* letters in a generated document (newlines not counted)
MaxTargetLen == 2     \* length of a generated textToFind
MaxInstance == 3      \* largest matchInstance tried
MaxRev == 1           \* batches the store applies before the model stops calling
MaxStartNumber == 2   \* largest startNumber tried
MaxUpdates == 2       \* store writes before the model stops calling update-doc
MaxContentLen == 2    \* length of the longest content or textToInsert
MaxIndex == 5         \* largest index, startIndex or endIndex tried

(***************************************************************************)
(* Strings                                                                 *)
(***************************************************************************)
Alphabet == {"a", "b"}
NL == "\n"

Min(S) == CHOOSE x \in S : \A y \in S : x <= y

RECURSIVE SumLen(_)
SumLen(ss) == IF ss = <<>> THEN 0 ELSE Len(Head(ss)) + SumLen(Tail(ss))

\* positions (0-based) at which t occurs in content
Occurrences(content, t) ==
    { i \in 0..(Len(content) - Len(t)) : SubSeq(content, i + 1, i + Len(t)) = t }

\* String.prototype.includes
includes(content, t) == Occurrences(content, t) # {}

\* String.prototype.indexOf: the first position, -1 when there is none
indexOf(content, t) ==
    IF Occurrences(content, t) = {} THEN -1 ELSE Min(Occurrences(content, t))

\* strings of length 1..n over the alphabet
Strs(n) == UNION { [1..m -> Alphabet] : m \in 1..n }

(***************************************************************************)
(* The document tree returned by documents.get                             *)
(***************************************************************************)
TextRun(content, startIndex) ==
    [kind |-> "textRun", content |-> content,
     startIndex |-> startIndex, endIndex |-> startIndex + Len(content)]

\* an element of a paragraph that is not a text run (inline object, page break)
OtherRun(startIndex) ==
    [kind |-> "inlineObject", content |-> <<>>,
     startIndex |-> startIndex, endIndex |-> startIndex + 1]

RECURSIVE RunsAt(_, _)
RunsAt(texts, startIndex) ==
    IF texts = <<>> THEN <<>>
    ELSE LET r == IF Head(texts) = <<"#">> THEN OtherRun(startIndex)
                  ELSE TextRun(Head(texts), startIndex)
         IN <<r>> \o RunsAt(Tail(texts), r.endIndex)

Paragraph(texts, startIndex) ==
    [kind |-> "paragraph", startIndex |-> startIndex,
     endIndex |-> startIndex + SumLen(texts),
     elements |-> RunsAt(texts, startIndex)]

\* the section break every body starts with; the API omits its startIndex
SectionBreak ==
    [kind |-> "sectionBreak", startIndex |-> 0, endIndex |-> 1, elements |-> <<>>]

\* a structural element that is not a paragraph and holds n offsets
Table(startIndex, n) ==
    [kind |-> "table", startIndex |-> startIndex, endIndex |-> startIndex + n,
     elements |-> <<>>]

\* the paragraph's last run carries the paragraph's newline
WithNewline(texts) ==
    [i \in 1..Len(texts) |->
        IF i = Len(texts) /\ texts[i] # <<"#">> THEN texts[i] \o <<NL>> ELSE texts[i]]

RECURSIVE ElementsAt(_, _)
ElementsAt(paras, startIndex) ==
    IF paras = <<>> THEN <<>>
    ELSE LET e == IF Head(paras) = <<<<"T">>>> THEN Table(startIndex, 4)
                  ELSE Paragraph(WithNewline(Head(paras)), startIndex)
         IN <<e>> \o ElementsAt(Tail(paras), e.endIndex)

\* doc.data of a document whose paragraphs are the given sequences of run texts
MkDoc(paras) ==
    [body |-> "present", content |-> <<SectionBreak>> \o ElementsAt(paras, 1)]

NoBodyDoc == [body |-> "absent", content |-> <<>>]
NoContentDoc == [body |-> "nocontent", content |-> <<>>]
NoDoc == [body |-> "none", content |-> <<>>]

\* sequences of runs (non-empty strings) holding at most n letters
RECURSIVE RunSeqs(_)
RunSeqs(n) ==
    {<<>>} \cup UNION { { <<s>> \o r : r \in RunSeqs(n - Len(s)) } : s \in Strs(n) }

\* sequences of non-empty paragraphs holding at most n letters
RECURSIVE ParaSeqs(_)
ParaSeqs(n) ==
    {<<>>} \cup UNION { { <<p>> \o q : q \in ParaSeqs(n - SumLen(p)) }
                        : p \in RunSeqs(n) \ {<<>>} }

Hello == <<"H", "e", "l", "l", "o">>
HelloText == Hello \o <<" ", "W", "o", "r", "l", "d", ".", " ">>
             \o Hello \o <<" ", "M", "o", "o", "n", ".">>

\* "Hello World. Hello Moon." as one run starting at offset 1
HelloDoc == MkDoc(<< <<HelloText>> >>)

\* three paragraphs, the target "ab" only in the second, not at its start
ThreeParaDoc == MkDoc(<< <<<<"b", "b">>>>, <<<<"b">>, <<"b", "a", "b">>>>, <<<<"a">>>> >>)

\* paragraphs around a table and an inline object, and an empty paragraph
MixedDoc == MkDoc(<< <<<<"a">>, <<"#">>, <<"a">>>>, <<<<"T">>>>, <<<<>>>>, <<<<"a", "a">>>> >>)

ScenarioDocs == {HelloDoc, ThreeParaDoc, MixedDoc, NoBodyDoc, NoContentDoc}

Docs == { MkDoc(p) : p \in ParaSeqs(MaxDocLen) } \cup ScenarioDocs

(***************************************************************************)
(* Results and errors                                                      *)
(***************************************************************************)
\* a template literal: its fixed text and the values interpolated into it
Text(template, params) == [template |-> template, params |-> params]

Null == [found |-> FALSE, startIndex |-> 0, endIndex |-> 0]
Range(startIndex, endIndex) ==
    [found |-> TRUE, startIndex |-> startIndex, endIndex |-> endIndex]

\* the range object as it is placed in a request
RangeOf(r) == [startIndex |-> r.startIndex, endIndex |-> r.endIndex]

NoResult == [isError |-> FALSE, text |-> Text("", <<>>)]
Success(text) == [isError |-> FALSE, text |-> text]

\* the catch block: error.message behind the tool's prefix, isError: true
Failure(prefix, message) == [isError |-> TRUE, text |-> Text(prefix, <<message>>)]

\* the message of the error a rejected store call throws
StoreError(op) == Text("store error", <<op>>)

Call(op, ok) == [op |-> op, ok |-> ok]

\* textElement.startIndex || 0 : an absent or zero index reads as 0
OrZero(i) == IF i = 0 THEN 0 ELSE i

(***************************************************************************)
(* apply-text-style: the search for the text                               *)
(***************************************************************************)
\* the loop over element.paragraph.elements, carrying currentInstance
RECURSIVE TextScanRuns(_, _, _, _)
TextScanRuns(runs, textToFind, matchInstance, currentInstance) ==
    IF runs = <<>> THEN [range |-> Null, currentInstance |-> currentInstance]
    ELSE LET textElement == Head(runs)
             content == textElement.content
             startIndex == OrZero(textElement.startIndex)
             textIndex == indexOf(content, textToFind)
         IN IF /\ textElement.kind = "textRun"
               /\ content # <<>>
               /\ includes(content, textToFind)
               /\ textIndex # -1
            THEN IF currentInstance + 1 = matchInstance
                 THEN [range |-> Range(startIndex + textIndex,
                                       startIndex + textIndex + Len(textToFind)),
                       currentInstance |-> currentInstance + 1]
                 ELSE TextScanRuns(Tail(runs), textToFind, matchInstance,
                                   currentInstance + 1)
            ELSE TextScanRuns(Tail(runs), textToFind, matchInstance, currentInstance)

\* the loop over doc.data.body.content
RECURSIVE TextScanElements(_, _, _, _)
TextScanElements(content, textToFind, matchInstance, currentInstance) ==
    IF content = <<>> THEN Null
    ELSE LET element == Head(content)
         IN IF element.kind = "paragraph"
            THEN LET res == TextScanRuns(element.elements, textToFind,
                                         matchInstance, currentInstance)
                 IN IF res.range.found THEN res.range
                    ELSE TextScanElements(Tail(content), textToFind,
                                          matchInstance, res.currentInstance)
            ELSE TextScanElements(Tail(content), textToFind, matchInstance,
                                  currentInstance)

\* the range counted from the start of the body's text, not from offset 1
TextTargetRangeFromZero(d, textToFind, matchInstance) ==
    LET r == IF d.body = "present"
             THEN TextScanElements(d.content, textToFind, matchInstance, 0)
             ELSE Null
    IN IF r.found THEN Range(r.startIndex - 1, r.endIndex - 1) ELSE r

\* targetRange of apply-text-style after the search
TextTargetRange(d, textToFind, matchInstance) ==
    IF d.body = "present"
    THEN TextScanElements(d.content, textToFind, matchInstance, 0)
    ELSE Null

(***************************************************************************)
(* apply-text-style: hex colours                                           *)
(***************************************************************************)
HexDigits == <<"0", "1", "2", "3", "4", "5", "6", "7", "8", "9",
               "a", "b", "c", "d", "e", "f">>
HexUpper == <<"0", "1", "2", "3", "4", "5", "6", "7", "8", "9",
              "A", "B", "C", "D", "E", "F">>

IsHexDigit(c) == \E i \in 1..16 : HexDigits[i] = c \/ HexUpper[i] = c
HexValue(c) == (CHOOSE i \in 1..16 : HexDigits[i] = c \/ HexUpper[i] = c) - 1

\* a number: NaN, or the fraction num / den
NaN == [nan |-> TRUE, num |-> 0, den |-> 1]
Num(n, d) == [nan |-> FALSE, num |-> n, den |-> d]

\* String.prototype.replace with a string pattern: the first match only
replace(s, c) ==
    IF \E i \in 1..Len(s) : s[i] = c
    THEN LET i == Min({ j \in 1..Len(s) : s[j] = c })
         IN SubSeq(s, 1, i - 1) \o SubSeq(s, i + 1, Len(s))
    ELSE s

\* String.prototype.substr(start, length)
substr(s, start, length) ==
    SubSeq(s, start + 1, IF start + length <= Len(s) THEN start + length ELSE Len(s))

\* value of the longest prefix of hex digits, most significant digit first
RECURSIVE HexPrefixValue(_, _)
HexPrefixValue(s, acc) ==
    IF s = <<>> \/ ~IsHexDigit(Head(s)) THEN acc
    ELSE HexPrefixValue(Tail(s), 16 * acc + HexValue(Head(s)))

\* parseInt(s, 16): optional sign, optional 0x, then the leading hex digits;
\* NaN when there is no digit
parseInt16(s) ==
    LET neg == s # <<>> /\ Head(s) = "-"
        s1 == IF s # <<>> /\ Head(s) \in {"-", "+"} THEN Tail(s) ELSE s
        s2 == IF Len(s1) >= 2 /\ s1[1] = "0" /\ s1[2] \in {"x", "X"}
              THEN SubSeq(s1, 3, Len(s1)) ELSE s1
    IN IF s2 = <<>> \/ ~IsHexDigit(Head(s2)) THEN NaN
       ELSE Num((IF neg THEN -1 ELSE 1) * HexPrefixValue(s2, 0), 1)

\* the division with the wrong divisor
DivideBy256(x) == IF x.nan THEN NaN ELSE Num(x.num, x.den * 256)

\* x / 255
DivideBy255(x) == IF x.nan THEN NaN ELSE Num(x.num, x.den * 255)

\* the rgbColor built from a colour option
HexToRgb(color) ==
    LET hex == replace(color, "#")
        r == DivideBy255(parseInt16(substr(hex, 0, 2)))
        g == DivideBy255(parseInt16(substr(hex, 2, 2)))
        b == DivideBy255(parseInt16(substr(hex, 4, 2)))
    IN [color |-> [rgbColor |-> [red |-> r, green |-> g, blue |-> b]]]

(***************************************************************************)
(* apply-text-style: the style request                                     *)
(***************************************************************************)
TextAttrs == {"bold", "italic", "underline", "strikethrough", "fontSize",
              "fontFamily", "foregroundColor", "backgroundColor", "linkUrl"}

\* the check written with every() in place of some(): true of no option at all
hasStyleOptionsAlways(styleOptions) == \A a \in DOMAIN styleOptions : TRUE

\* Object.values(styleOptions).some(v => v !== undefined); an option that was
\* not supplied is a key outside the domain
hasStyleOptions(styleOptions) == \E a \in DOMAIN styleOptions : TRUE

Supplied(styleOptions, a) == a \in DOMAIN styleOptions

\* fieldsToUpdate when bold is tested for truth instead of for presence
TextFieldsToUpdateTruthyBold(o) ==
    (IF Supplied(o, "bold") /\ o.bold THEN <<"bold">> ELSE <<>>)
    \o (IF Supplied(o, "italic") THEN <<"italic">> ELSE <<>>)
    \o (IF Supplied(o, "underline") THEN <<"underline">> ELSE <<>>)
    \o (IF Supplied(o, "strikethrough") THEN <<"strikethrough">> ELSE <<>>)
    \o (IF Supplied(o, "fontSize") THEN <<"fontSize">> ELSE <<>>)
    \o (IF Supplied(o, "fontFamily") THEN <<"weightedFontFamily">> ELSE <<>>)
    \o (IF Supplied(o, "foregroundColor") THEN <<"foregroundColor">> ELSE <<>>)
    \o (IF Supplied(o, "backgroundColor") THEN <<"backgroundColor">> ELSE <<>>)
    \o (IF Supplied(o, "linkUrl") THEN <<"link">> ELSE <<>>)

\* fieldsToUpdate after the sequence of if-statements
TextFieldsToUpdate(o) ==
    (IF Supplied(o, "bold") THEN <<"bold">> ELSE <<>>)
    \o (IF Supplied(o, "italic") THEN <<"italic">> ELSE <<>>)
    \o (IF Supplied(o, "underline") THEN <<"underline">> ELSE <<>>)
    \o (IF Supplied(o, "strikethrough") THEN <<"strikethrough">> ELSE <<>>)
    \o (IF Supplied(o, "fontSize") THEN <<"fontSize">> ELSE <<>>)
    \o (IF Supplied(o, "fontFamily") THEN <<"weightedFontFamily">> ELSE <<>>)
    \o (IF Supplied(o, "foregroundColor") THEN <<"foregroundColor">> ELSE <<>>)
    \o (IF Supplied(o, "backgroundColor") THEN <<"backgroundColor">> ELSE <<>>)
    \o (IF Supplied(o, "linkUrl") THEN <<"link">> ELSE <<>>)

\* the keys of textStyle after the same if-statements
TextStyleKeys(o) ==
    (IF Supplied(o, "bold") THEN {"bold"} ELSE {})
    \cup (IF Supplied(o, "italic") THEN {"italic"} ELSE {})
    \cup (IF Supplied(o, "underline") THEN {"underline"} ELSE {})
    \cup (IF Supplied(o, "strikethrough") THEN {"strikethrough"} ELSE {})
    \cup (IF Supplied(o, "fontSize") THEN {"fontSize"} ELSE {})
    \cup (IF Supplied(o, "fontFamily") THEN {"weightedFontFamily"} ELSE {})
    \cup (IF Supplied(o, "foregroundColor") THEN {"foregroundColor"} ELSE {})
    \cup (IF Supplied(o, "backgroundColor") THEN {"backgroundColor"} ELSE {})
    \cup (IF Supplied(o, "linkUrl") THEN {"link"} ELSE {})

\* textStyle: the value stored under each key
TextStyle(o) ==
    [key \in TextStyleKeys(o) |->
        CASE key = "bold" -> o.bold
          [] key = "italic" -> o.italic
          [] key = "underline" -> o.underline
          [] key = "strikethrough" -> o.strikethrough
          [] key = "fontSize" -> [magnitude |-> o.fontSize, unit |-> "PT"]
          [] key = "weightedFontFamily" -> [fontFamily |-> o.fontFamily]
          [] key = "foregroundColor" -> HexToRgb(o.foregroundColor)
          [] key = "backgroundColor" -> HexToRgb(o.backgroundColor)
          [] key = "link" -> [url |-> o.linkUrl]]

Request(type, range, style, fields, bulletPreset) ==
    [type |-> type, range |-> range, style |-> style, fields |-> fields,
     bulletPreset |-> bulletPreset]

\* requests of apply-text-style: one updateTextStyle unless textStyle is empty
TextStyleRequests(range, o) ==
    IF TextStyleKeys(o) # {}
    THEN << Request("updateTextStyle", RangeOf(range), TextStyle(o),
                    TextFieldsToUpdate(o), "") >>
    ELSE <<>>

(***************************************************************************)
(* apply-paragraph-style: the search and the style request                 *)
(***************************************************************************)
\* the loop that leaves a paragraph at its first run with the text, so that a
\* paragraph counts once
RECURSIVE ParagraphScanRunsOnce(_, _, _, _)
ParagraphScanRunsOnce(runs, textToFind, matchInstance, currentInstance) ==
    IF runs = <<>>
    THEN [foundInThisParagraph |-> FALSE, currentInstance |-> currentInstance]
    ELSE LET textElement == Head(runs)
             content == textElement.content
         IN IF /\ textElement.kind = "textRun"
               /\ content # <<>>
               /\ includes(content, textToFind)
            THEN [foundInThisParagraph |-> currentInstance + 1 = matchInstance,
                  currentInstance |-> currentInstance + 1]
            ELSE ParagraphScanRunsOnce(Tail(runs), textToFind, matchInstance,
                                       currentInstance)

\* the loop over the runs of one paragraph: currentInstance grows at every
\* run that contains the text, until it equals matchInstance
RECURSIVE ParagraphScanRuns(_, _, _, _)
ParagraphScanRuns(runs, textToFind, matchInstance, currentInstance) ==
    IF runs = <<>>
    THEN [foundInThisParagraph |-> FALSE, currentInstance |-> currentInstance]
    ELSE LET textElement == Head(runs)
             content == textElement.content
         IN IF /\ textElement.kind = "textRun"
               /\ content # <<>>
               /\ includes(content, textToFind)
            THEN IF currentInstance + 1 = matchInstance
                 THEN [foundInThisParagraph |-> TRUE,
                       currentInstance |-> currentInstance + 1]
                 ELSE ParagraphScanRuns(Tail(runs), textToFind, matchInstance,
                                        currentInstance + 1)
            ELSE ParagraphScanRuns(Tail(runs), textToFind, matchInstance,
                                   currentInstance)

\* the range of the paragraph's first run in place of the paragraph's
FirstRunRangeOf(element) ==
    Range(OrZero(element.elements[1].startIndex),
          OrZero(element.elements[1].endIndex))

\* paragraphRange when the text was found in this paragraph
ParagraphRangeOf(element) ==
    Range(OrZero(element.startIndex), OrZero(element.endIndex))

\* the loop over doc.data.body.content
RECURSIVE ParagraphScanElements(_, _, _, _)
ParagraphScanElements(content, textToFind, matchInstance, currentInstance) ==
    IF content = <<>> THEN Null
    ELSE LET element == Head(content)
         IN IF element.kind = "paragraph"
            THEN LET res == ParagraphScanRuns(element.elements, textToFind,
                                              matchInstance, currentInstance)
                 IN IF res.foundInThisParagraph THEN ParagraphRangeOf(element)
                    ELSE ParagraphScanElements(Tail(content), textToFind,
                                               matchInstance, res.currentInstance)
            ELSE ParagraphScanElements(Tail(content), textToFind, matchInstance,
                                       currentInstance)

\* a document without a body taken as one empty paragraph at offset 1
ParagraphTargetRangeOfEmptyParagraph(d, textToFind, matchInstance) ==
    IF d.body = "present"
    THEN ParagraphScanElements(d.content, textToFind, matchInstance, 0)
    ELSE Range(1, 1)

\* paragraphRange of apply-paragraph-style after the search
ParagraphTargetRange(d, textToFind, matchInstance) ==
    IF d.body = "present"
    THEN ParagraphScanElements(d.content, textToFind, matchInstance, 0)
    ELSE Null

ParagraphAttrs == {"namedStyleType", "alignment", "indentStart", "indentEnd",
                   "spaceAbove", "spaceBelow", "keepWithNext"}

\* fieldsToUpdate after the sequence of if-statements
ParagraphFieldsToUpdate(o) ==
    (IF Supplied(o, "namedStyleType") THEN <<"namedStyleType">> ELSE <<>>)
    \o (IF Supplied(o, "alignment") THEN <<"alignment">> ELSE <<>>)
    \o (IF Supplied(o, "indentStart") THEN <<"indentStart">> ELSE <<>>)
    \o (IF Supplied(o, "indentEnd") THEN <<"indentEnd">> ELSE <<>>)
    \o (IF Supplied(o, "spaceAbove") THEN <<"spaceAbove">> ELSE <<>>)
    \o (IF Supplied(o, "spaceBelow") THEN <<"spaceBelow">> ELSE <<>>)
    \o (IF Supplied(o, "keepWithNext") THEN <<"keepWithNext">> ELSE <<>>)

\* the keys of paragraphStyle after the same if-statements
ParagraphStyleKeys(o) ==
    (IF Supplied(o, "namedStyleType") THEN {"namedStyleType"} ELSE {})
    \cup (IF Supplied(o, "alignment") THEN {"alignment"} ELSE {})
    \cup (IF Supplied(o, "indentStart") THEN {"indentStart"} ELSE {})
    \cup (IF Supplied(o, "indentEnd") THEN {"indentEnd"} ELSE {})
    \cup (IF Supplied(o, "spaceAbove") THEN {"spaceAbove"} ELSE {})
    \cup (IF Supplied(o, "spaceBelow") THEN {"spaceBelow"} ELSE {})
    \cup (IF Supplied(o, "keepWithNext") THEN {"keepWithNext"} ELSE {})

\* paragraphStyle: the value stored under each key
ParagraphStyle(o) ==
    [key \in ParagraphStyleKeys(o) |->
        CASE key = "namedStyleType" -> o.namedStyleType
          [] key = "alignment" -> o.alignment
          [] key = "indentStart" -> [magnitude |-> o.indentStart, unit |-> "PT"]
          [] key = "indentEnd" -> [magnitude |-> o.indentEnd, unit |-> "PT"]
          [] key = "spaceAbove" -> [magnitude |-> o.spaceAbove, unit |-> "PT"]
          [] key = "spaceBelow" -> [magnitude |-> o.spaceBelow, unit |-> "PT"]
          [] key = "keepWithNext" -> o.keepWithNext]

\* requests of apply-paragraph-style
ParagraphStyleRequests(range, o) ==
    IF ParagraphStyleKeys(o) # {}
    THEN << Request("updateParagraphStyle", RangeOf(range), ParagraphStyle(o),
                    ParagraphFieldsToUpdate(o), "") >>
    ELSE <<>>

(***************************************************************************)
(* apply-list-style: the search and the requests                           *)
(***************************************************************************)
\* targetRange of apply-list-style: the same loops as apply-text-style
ListTargetRange(d, textToFind, matchInstance) ==
    IF d.body = "present"
    THEN TextScanElements(d.content, textToFind, matchInstance, 0)
    ELSE Null

ListTypes == {"BULLET", "NUMBERED", "ALPHA", "ROMAN"}

\* the preset taken when the map has no entry for the kind
FallbackPreset == "GLYPH_TYPE_UNSPECIFIED"

\* glyphTypeMap[listType] || 'GLYPH_TYPE_UNSPECIFIED'
glyphTypeMap(listType) ==
    CASE listType = "BULLET" -> "GLYPH_TYPE_UNSPECIFIED"
      [] listType = "NUMBERED" -> "DECIMAL"
      [] listType = "ALPHA" -> "ALPHA"
      [] listType = "ROMAN" -> "ROMAN"
      [] OTHER -> FallbackPreset

PointsPerLevel == 36

\* the first line indented with the paragraph, level by level
ListIndentStyleOfFirstLine(indentLevel) ==
    [key \in {"indentStart", "indentFirstLine"} |->
        [magnitude |-> indentLevel * PointsPerLevel, unit |-> "PT"]]

\* the paragraphStyle of the indentation request
ListIndentStyle(indentLevel) ==
    [key \in {"indentStart", "indentFirstLine"} |->
        IF key = "indentStart"
        THEN [magnitude |-> indentLevel * PointsPerLevel, unit |-> "PT"]
        ELSE [magnitude |-> 0, unit |-> "PT"]]

NoStyle == [key \in {} |-> 0]

\* requests of apply-list-style, the pushed updateListProperties included
ListStyleRequests(range, listType, indentLevel, startNumber) ==
    << Request("updateParagraphStyle", RangeOf(range), ListIndentStyle(indentLevel),
               <<"indentStart", "indentFirstLine">>, ""),
       Request("createParagraphBullets", RangeOf(range), NoStyle, <<>>,
               glyphTypeMap(listType)) >>
    \o (IF listType = "NUMBERED" /\ startNumber > 1
        THEN << Request("updateListProperties", RangeOf(Null), NoStyle, <<>>, "") >>
        ELSE <<>>)

(***************************************************************************)
(* The handlers                                                            *)
(***************************************************************************)
Args(textToFind, matchInstance, styleOptions, listType, indentLevel, startNumber) ==
    [textToFind |-> textToFind, matchInstance |-> matchInstance,
     styleOptions |-> styleOptions, listType |-> listType,
     indentLevel |-> indentLevel, startNumber |-> startNumber]

NoOptions == [a \in {} |-> TRUE]

\* the message that names neither the instance nor the text
NotFoundAnonymous(matchInstance, textToFind) ==
    Text("Could not find the text in the document", <<>>)

NotFoundInDocument(matchInstance, textToFind) ==
    Text("Could not find instance {0} of text \"{1}\" in the document",
         <<matchInstance, textToFind>>)

NotFoundInParagraph(matchInstance, textToFind) ==
    Text("Could not find instance {0} of text \"{1}\" in any paragraph",
         <<matchInstance, textToFind>>)

\* the store a file was never created in or deleted from
NoFiles == [exists |-> TRUE, title |-> "Untitled", created |-> <<>>]

\* no batch has changed the text yet
NoEdit == [tool |-> "none", requests |-> <<>>]

\* what an invocation can observe of the store
StoreState == [doc |-> storeDoc, rev |-> storeRev, files |-> storeFiles]

\* writes the store has taken: batches, files created, the file deleted
StoreWrites ==
    storeRev + Len(storeFiles.created) + (IF storeFiles.exists THEN 0 ELSE 1)

\* a call about the document returns or throws; it throws when the file is gone
StoreOutcomes == IF storeFiles.exists THEN BOOLEAN ELSE {FALSE}

\* The process. main checks the credentials file, awaits initApiClients,
\* creates the server, registers resources, prompts and tools, and awaits
\* server.connect; a throw anywhere ends in process.exit(1).
Registrations == <<"registerResources", "registerPrompts", "registerAllTools">>

\* the process as it starts: no clients handle, nothing registered
Started ==
    [pc |-> "start", clients |-> "none", created |-> 0, log |-> <<>>,
     connected |-> FALSE, exited |-> FALSE, exitCode |-> 0]

\* the process once main has run to its end
Serving ==
    [pc |-> "running", clients |-> "clients", created |-> 1,
     log |-> <<"isAuthConfigured", "initApiClients">> \o Registrations \o <<"connect">>,
     connected |-> TRUE, exited |-> FALSE, exitCode |-> 0]

\* process.exit(code)
Exit(s, code) == [s EXCEPT !.pc = "exited", !.exited = TRUE, !.exitCode = code]

\* a handler is called with arguments a, the store having taken fewer than
\* bound writes: its locals are fresh, the store is as it is
Invoke(name, a, bound) ==
    /\ server.connected
    /\ pc = "idle"
    /\ StoreWrites < bound
    /\ tool' = name
    /\ args' = a
    /\ before' = StoreState
    /\ doc' = NoDoc
    /\ targetRange' = Null
    /\ calls' = <<>>
    /\ UNCHANGED <<server, storeDoc, storeRev, storeFiles, storeLastEdit>>

\* a formatting handler is entered: its requests array is empty
Enter(name, a) == Invoke(name, a, MaxRev) /\ requests' = <<>>

\* the handler returns r
Return(r) == pc' = "done" /\ result' = r

\* the result has gone to the caller: nothing of the invocation is kept
Deliver ==
    /\ pc = "done"
    /\ pc' = "idle"
    /\ tool' = "none"
    /\ args' = Args(<<>>, 1, NoOptions, "", 0, 1)
    /\ before' = StoreState
    /\ doc' = NoDoc
    /\ targetRange' = Null
    /\ requests' = <<>>
    /\ calls' = <<>>
    /\ result' = NoResult
    /\ UNCHANGED <<server, storeDoc, storeRev, storeFiles, storeLastEdit>>

\* apply-text-style up to its first await: the style check, then documents.get
ApplyTextStyle(textToFind, matchInstance, styleOptions) ==
    /\ Enter("apply-text-style",
             Args(textToFind, matchInstance, styleOptions, "", 0, 1))
    /\ IF ~hasStyleOptions(styleOptions)
       THEN Return(Failure("Error applying text style: ",
                           Text("At least one style option must be provided", <<>>)))
       ELSE pc' = "get" /\ result' = NoResult

\* documents.get returns or throws; the search, the requests, then batchUpdate
ApplyTextStyleGet ==
    /\ pc = "get" /\ tool = "apply-text-style"
    /\ \E ok \in StoreOutcomes :
        /\ calls' = Append(calls, Call("documents.get", ok))
        /\ IF ~ok
           THEN /\ Return(Failure("Error applying text style: ",
                                  StoreError("documents.get")))
                /\ UNCHANGED <<doc, targetRange, requests>>
           ELSE LET range == TextTargetRange(storeDoc, args.textToFind,
                                             args.matchInstance)
                    reqs == TextStyleRequests(range, args.styleOptions)
                IN /\ doc' = storeDoc
                   /\ targetRange' = range
                   /\ IF ~range.found
                      THEN /\ Return(Failure("Error applying text style: ",
                                       NotFoundInDocument(args.matchInstance,
                                                          args.textToFind)))
                           /\ UNCHANGED requests
                      ELSE /\ requests' = reqs
                           /\ IF Len(reqs) > 0
                              THEN pc' = "batchUpdate" /\ result' = NoResult
                              ELSE Return(Success(
                                     Text("Text styling applied successfully!",
                                          <<args.textToFind, args.matchInstance,
                                            TextFieldsToUpdate(args.styleOptions),
                                            range.startIndex, range.endIndex>>)))
    /\ UNCHANGED <<server, storeDoc, storeRev, storeFiles, storeLastEdit, before, tool, args>>

\* documents.batchUpdate returns or throws: the store applies the whole batch
\* or nothing
ApplyTextStyleBatchUpdate ==
    /\ pc = "batchUpdate" /\ tool = "apply-text-style"
    /\ \E ok \in StoreOutcomes :
        /\ calls' = Append(calls, Call("documents.batchUpdate", ok))
        /\ storeRev' = IF ok THEN storeRev + 1 ELSE storeRev
        /\ IF ok
           THEN Return(Success(
                  Text("Text styling applied successfully!",
                       <<args.textToFind, args.matchInstance,
                         TextFieldsToUpdate(args.styleOptions),
                         targetRange.startIndex, targetRange.endIndex>>)))
           ELSE Return(Failure("Error applying text style: ",
                               StoreError("documents.batchUpdate")))
    /\ UNCHANGED <<server, storeDoc, storeFiles, storeLastEdit, before, tool, args, doc,
                 targetRange, requests>>

\* apply-paragraph-style up to its first await
ApplyParagraphStyle(textToFind, matchInstance, styleOptions) ==
    /\ Enter("apply-paragraph-style",
             Args(textToFind, matchInstance, styleOptions, "", 0, 1))
    /\ IF ~hasStyleOptions(styleOptions)
       THEN Return(Failure("Error applying paragraph style: ",
              Text("At least one paragraph style option must be provided", <<>>)))
       ELSE pc' = "get" /\ result' = NoResult

ApplyParagraphStyleGet ==
    /\ pc = "get" /\ tool = "apply-paragraph-style"
    /\ \E ok \in StoreOutcomes :
        /\ calls' = Append(calls, Call("documents.get", ok))
        /\ IF ~ok
           THEN /\ Return(Failure("Error applying paragraph style: ",
                                  StoreError("documents.get")))
                /\ UNCHANGED <<doc, targetRange, requests>>
           ELSE LET range == ParagraphTargetRange(storeDoc, args.textToFind,
                                                  args.matchInstance)
                    reqs == ParagraphStyleRequests(range, args.styleOptions)
                IN /\ doc' = storeDoc
                   /\ targetRange' = range
                   /\ IF ~range.found
                      THEN /\ Return(Failure("Error applying paragraph style: ",
                                       NotFoundInParagraph(args.matchInstance,
                                                           args.textToFind)))
                           /\ UNCHANGED requests
                      ELSE /\ requests' = reqs
                           /\ IF Len(reqs) > 0
                              THEN pc' = "batchUpdate" /\ result' = NoResult
                              ELSE Return(Success(
                                     Text("Paragraph styling applied successfully!",
                                          <<args.textToFind, args.matchInstance,
                                            range.startIndex, range.endIndex,
                                            ParagraphFieldsToUpdate(args.styleOptions)>>)))
    /\ UNCHANGED <<server, storeDoc, storeRev, storeFiles, storeLastEdit, before, tool, args>>

ApplyParagraphStyleBatchUpdate ==
    /\ pc = "batchUpdate" /\ tool = "apply-paragraph-style"
    /\ \E ok \in StoreOutcomes :
        /\ calls' = Append(calls, Call("documents.batchUpdate", ok))
        /\ storeRev' = IF ok THEN storeRev + 1 ELSE storeRev
        /\ IF ok
           THEN Return(Success(
                  Text("Paragraph styling applied successfully!",
                       <<args.textToFind, args.matchInstance,
                         targetRange.startIndex, targetRange.endIndex,
                         ParagraphFieldsToUpdate(args.styleOptions)>>)))
           ELSE Return(Failure("Error applying paragraph style: ",
                               StoreError("documents.batchUpdate")))
    /\ UNCHANGED <<server, storeDoc, storeFiles, storeLastEdit, before, tool, args, doc,
                 targetRange, requests>>

\* apply-list-style up to its first await: documents.get at once
ApplyListStyle(textToFind, matchInstance, listType, indentLevel, startNumber) ==
    /\ Enter("apply-list-style",
             Args(textToFind, matchInstance, NoOptions, listType, indentLevel,
                  startNumber))
    /\ pc' = "get" /\ result' = NoResult

ApplyListStyleGet ==
    /\ pc = "get" /\ tool = "apply-list-style"
    /\ \E ok \in StoreOutcomes :
        /\ calls' = Append(calls, Call("documents.get", ok))
        /\ IF ~ok
           THEN /\ Return(Failure("Error applying list style: ",
                                  StoreError("documents.get")))
                /\ UNCHANGED <<doc, targetRange, requests>>
           ELSE LET range == ListTargetRange(storeDoc, args.textToFind,
                                             args.matchInstance)
                IN /\ doc' = storeDoc
                   /\ targetRange' = range
                   /\ IF ~range.found
                      THEN /\ Return(Failure("Error applying list style: ",
                                       NotFoundInDocument(args.matchInstance,
                                                          args.textToFind)))
                           /\ UNCHANGED requests
                      ELSE /\ requests' = ListStyleRequests(range, args.listType,
                                            args.indentLevel, args.startNumber)
                           /\ pc' = "batchUpdate" /\ result' = NoResult
    /\ UNCHANGED <<server, storeDoc, storeRev, storeFiles, storeLastEdit, before, tool, args>>

ApplyListStyleBatchUpdate ==
    /\ pc = "batchUpdate" /\ tool = "apply-list-style"
    /\ \E ok \in StoreOutcomes :
        /\ calls' = Append(calls, Call("documents.batchUpdate", ok))
        /\ storeRev' = IF ok THEN storeRev + 1 ELSE storeRev
        /\ IF ok
           THEN Return(Success(
                  Text("List style applied successfully!",
                       <<args.textToFind, args.listType, args.indentLevel,
                         args.startNumber, targetRange.startIndex,
                         targetRange.endIndex>>)))
           ELSE Return(Failure("Error applying list style: ",
                               StoreError("documents.batchUpdate")))
    /\ UNCHANGED <<server, storeDoc, storeFiles, storeLastEdit, before, tool, args, doc,
                 targetRange, requests>>

(***************************************************************************)
(* Inputs                                                                  *)
(***************************************************************************)
Targets == {<<>>} \cup Strs(MaxTargetLen) \cup {Hello}
Instances == 0..MaxInstance

\* options of the search specification: none, or one
FewTextOptions == {NoOptions, [bold |-> TRUE]}
FewParagraphOptions == {NoOptions, [alignment |-> "CENTER"]}
FewListOptions == { <<"BULLET", 0, 1>>, <<"NUMBERED", 1, MaxStartNumber>> }

(***************************************************************************)
(* Specification: every tool on every document                             *)
(***************************************************************************)
Init ==
    /\ storeDoc \in Docs
    /\ storeRev = 0
    /\ storeFiles = NoFiles
    /\ storeLastEdit = NoEdit
    /\ server = Serving
    /\ before = StoreState
    /\ pc = "idle"
    /\ tool = "none"
    /\ args = Args(<<>>, 1, NoOptions, "", 0, 1)
    /\ doc = NoDoc
    /\ targetRange = Null
    /\ requests = <<>>
    /\ calls = <<>>
    /\ result = NoResult

Next ==
    \/ \E t \in Targets, k \in Instances, o \in FewTextOptions :
          ApplyTextStyle(t, k, o)
    \/ ApplyTextStyleGet
    \/ ApplyTextStyleBatchUpdate
    \/ \E t \in Targets, k \in Instances, o \in FewParagraphOptions :
          ApplyParagraphStyle(t, k, o)
    \/ ApplyParagraphStyleGet
    \/ ApplyParagraphStyleBatchUpdate
    \/ \E t \in Targets, k \in Instances, l \in FewListOptions :
          ApplyListStyle(t, k, l[1], l[2], l[3])
    \/ ApplyListStyleGet
    \/ ApplyListStyleBatchUpdate
    \/ Deliver

Spec == Init /\ [][Next]_vars

(***************************************************************************)
(* Specification: every style on one document                              *)
(***************************************************************************)
Hash == <<"#">>
ColorBytes == { <<"0", "0">>, <<"F", "F">>, <<"8", "0">>, <<"7", "f">> }

\* #RRGGBB for every choice of the three bytes
HexColors == { Hash \o r \o g \o b : r \in ColorBytes, g \in ColorBytes, b \in ColorBytes }

\* strings the schema (z.string()) accepts all the same
OtherColors ==
    { <<"F", "F", "0", "0", "0", "0">>, <<"#", "F", "F", "F">>, <<"r", "e", "d">>,
      <<>>, <<"#", "-", "1", "-", "1", "-", "1">>, <<"#", "0", "x", "0", "x", "0", "x">> }

Colors == HexColors \cup OtherColors

Green == <<"#", "0", "0", "F", "F", "0", "0">>
Yellow == <<"#", "F", "F", "F", "F", "0", "0">>

BooleanTextAttrs == {"bold", "italic", "underline", "strikethrough"}

SomeTextValue(a) ==
    CASE a \in BooleanTextAttrs -> TRUE
      [] a = "fontSize" -> 12
      [] a = "fontFamily" -> "Arial"
      [] a = "foregroundColor" -> Green
      [] a = "backgroundColor" -> Yellow
      [] a = "linkUrl" -> "https://example.com"

SomeParagraphValue(a) ==
    CASE a = "namedStyleType" -> "HEADING_1"
      [] a = "alignment" -> "CENTER"
      [] a = "indentStart" -> 0
      [] a = "indentEnd" -> 18
      [] a = "spaceAbove" -> 0
      [] a = "spaceBelow" -> 6
      [] a = "keepWithNext" -> FALSE

\* every subset of the attributes, the booleans also as false, every colour
TextStyleOptions ==
    { [a \in S |-> SomeTextValue(a)] : S \in SUBSET TextAttrs }
    \cup { [a \in S |-> FALSE] : S \in SUBSET BooleanTextAttrs }
    \cup { [foregroundColor |-> c] : c \in Colors }
    \cup { [backgroundColor |-> c] : c \in Colors }

ParagraphStyleOptions ==
    { [a \in S |-> SomeParagraphValue(a)] : S \in SUBSET ParagraphAttrs }

MaxIndentLevel == 8
IndentLevels == 0..MaxIndentLevel
StartNumbers == 1..MaxStartNumber

StyleDoc == MkDoc(<< << <<"a">>, <<"b", "a">> >> >>)

InitStyle ==
    /\ storeDoc = StyleDoc
    /\ storeRev = 0
    /\ storeFiles = NoFiles
    /\ storeLastEdit = NoEdit
    /\ server = Serving
    /\ before = StoreState
    /\ pc = "idle"
    /\ tool = "none"
    /\ args = Args(<<>>, 1, NoOptions, "", 0, 1)
    /\ doc = NoDoc
    /\ targetRange = Null
    /\ requests = <<>>
    /\ calls = <<>>
    /\ result = NoResult

NextStyle ==
    \/ \E k \in 1..2, o \in TextStyleOptions : ApplyTextStyle(<<"a">>, k, o)
    \/ ApplyTextStyleGet
    \/ ApplyTextStyleBatchUpdate
    \/ \E k \in 1..2, o \in ParagraphStyleOptions : ApplyParagraphStyle(<<"a">>, k, o)
    \/ ApplyParagraphStyleGet
    \/ ApplyParagraphStyleBatchUpdate
    \/ \E k \in 1..2, l \in ListTypes, i \in IndentLevels, n \in StartNumbers :
          ApplyListStyle(<<"a">>, k, l, i, n)
    \/ ApplyListStyleGet
    \/ ApplyListStyleBatchUpdate
    \/ Deliver

SpecStyle == InitStyle /\ [][NextStyle]_vars

(***************************************************************************)
(* The store's side of documents.batchUpdate: the text operations          *)
(***************************************************************************)
\* the requests of the content tools and of the basic tools
InsertTextRequest(index, text) == [type |-> "insertText", index |-> index, text |-> text]

DeleteContentRangeRequest(startIndex, endIndex) ==
    [type |-> "deleteContentRange",
     range |-> [startIndex |-> startIndex, endIndex |-> endIndex]]

InsertPageBreakRequest(index) == [type |-> "insertPageBreak", index |-> index]

\* The body as the store addresses it: one cell for each offset from 1 on,
\* holding its character ("#": an inline object, "T": a table's offset) and
\* the element and run it came from.
Cell(ch, para, run) == [ch |-> ch, para |-> para, run |-> run]

RECURSIVE CellsOfRuns(_, _, _)
CellsOfRuns(runs, para, j) ==
    IF j > Len(runs) THEN <<>>
    ELSE (IF runs[j].kind = "textRun"
          THEN [k \in 1..Len(runs[j].content) |-> Cell(runs[j].content[k], para, j)]
          ELSE << Cell("#", para, j) >>)
         \o CellsOfRuns(runs, para, j + 1)

RECURSIVE CellsOfElements(_, _)
CellsOfElements(content, i) ==
    IF i > Len(content) THEN <<>>
    ELSE (CASE content[i].kind = "paragraph" -> CellsOfRuns(content[i].elements, i, 1)
            [] content[i].kind = "table" ->
                 [k \in 1..(content[i].endIndex - content[i].startIndex) |->
                     Cell("T", i, 0)]
            [] OTHER -> <<>>)
         \o CellsOfElements(content, i + 1)

CellsOf(d) == IF d.body = "present" THEN CellsOfElements(d.content, 1) ELSE <<>>

IsTextCell(c) == c.ch \notin {"#", "T"}

\* a paragraph runs up to its newline; a table is an element of its own
StartsElement(cells, i) ==
    \/ i = 1
    \/ cells[i - 1].ch = NL
    \/ (cells[i].ch = "T") # (cells[i - 1].ch = "T")
    \/ cells[i].ch = "T" /\ cells[i].para # cells[i - 1].para

StartsRun(cells, i) ==
    \/ StartsElement(cells, i)
    \/ cells[i].para # cells[i - 1].para
    \/ cells[i].run # cells[i - 1].run
    \/ cells[i].ch = "#"
    \/ cells[i - 1].ch = "#"

\* the offsets from..to at which starts holds, in order, and the end to + 1
Boundaries(starts, from, to) ==
    LET Is(i) == starts[i]
    IN SelectSeq([k \in 1..(to - from + 1) |-> from + k - 1], Is) \o << to + 1 >>

\* the tree documents.get returns for the cells
TreeOf(cells) ==
    LET es == Boundaries([i \in 1..Len(cells) |-> StartsElement(cells, i)],
                         1, Len(cells))
        RunsOf(a, b) ==
            LET rs == Boundaries([i \in a..(b - 1) |-> StartsRun(cells, i)], a, b - 1)
            IN [r \in 1..(Len(rs) - 1) |->
                   IF cells[rs[r]].ch = "#" THEN OtherRun(rs[r])
                   ELSE TextRun([k \in 1..(rs[r + 1] - rs[r]) |-> cells[rs[r] + k - 1].ch],
                                rs[r])]
        ElementOf(a, b) ==
            IF cells[a].ch = "T" THEN Table(a, b - a)
            ELSE [kind |-> "paragraph", startIndex |-> a, endIndex |-> b,
                  elements |-> RunsOf(a, b)]
    IN [body |-> "present",
        content |-> <<SectionBreak>>
                    \o [e \in 1..(Len(es) - 1) |-> ElementOf(es[e], es[e + 1])]]

Applied(cells) == [ok |-> TRUE, cells |-> cells]
Rejected(cells) == [ok |-> FALSE, cells |-> cells]

\* new cells go into the run of the character at index, or of the one before
\* it; an empty body takes them at index 1
InsertCells(cells, index, chars) ==
    LET n == Len(cells)
        at == IF index >= 1 /\ index <= n /\ IsTextCell(cells[index]) THEN index
              ELSE IF index >= 2 /\ index <= n + 1 /\ IsTextCell(cells[index - 1])
                   THEN index - 1
                   ELSE 0
        para == IF at = 0 THEN 1 ELSE cells[at].para
        run == IF at = 0 THEN 1 ELSE cells[at].run
    IN IF at # 0 \/ (n = 0 /\ index = 1)
       THEN Applied(SubSeq(cells, 1, index - 1)
                    \o [k \in 1..Len(chars) |-> Cell(chars[k], para, run)]
                    \o SubSeq(cells, index, n))
       ELSE Rejected(cells)

\* the offsets startIndex..endIndex-1 go; a table goes whole or not at all
DeleteCells(cells, startIndex, endIndex) ==
    LET n == Len(cells)
        Gone(i) == startIndex <= i /\ i < endIndex
        Kept(c) == ~Gone(c.at)
        numbered == [i \in 1..n |-> [at |-> i, cell |-> cells[i]]]
        kept == SelectSeq(numbered, Kept)
    IN IF /\ 1 <= startIndex /\ startIndex < endIndex /\ endIndex <= n + 1
          /\ \A i, j \in 1..n :
                (cells[i].ch = "T" /\ cells[j].ch = "T" /\ cells[i].para = cells[j].para)
                => (Gone(i) <=> Gone(j))
       THEN Applied([k \in 1..Len(kept) |-> kept[k].cell])
       ELSE Rejected(cells)

\* one request on the cells; the formatting requests leave the text alone
ApplyRequest(cells, r) ==
    CASE r.type = "insertText" -> InsertCells(cells, r.index, r.text)
      [] r.type = "deleteContentRange" ->
           DeleteCells(cells, r.range.startIndex, r.range.endIndex)
      [] r.type = "insertPageBreak" -> InsertCells(cells, r.index, <<"#">>)
      [] OTHER -> Applied(cells)

\* the requests in order; one that is rejected rejects the batch
RECURSIVE ApplyBatch(_, _)
ApplyBatch(cells, reqs) ==
    IF reqs = <<>> THEN Applied(cells)
    ELSE LET first == ApplyRequest(cells, Head(reqs))
         IN IF first.ok THEN ApplyBatch(first.cells, Tail(reqs)) ELSE Rejected(cells)

\* the document after the batch, when the store can apply it
StoreApply(d, reqs) ==
    LET r == ApplyBatch(CellsOf(d), reqs)
    IN [ok |-> r.ok,
        doc |-> IF r.ok /\ r.cells # CellsOf(d) THEN TreeOf(r.cells) ELSE d]

\* the store after documents.batchUpdate of the invocation's requests: the
\* call returns only for a batch the store can apply
StoreTakes(ok) ==
    /\ storeDoc' = IF ok THEN StoreApply(storeDoc, requests).doc ELSE storeDoc
    /\ storeRev' = IF ok THEN storeRev + 1 ELSE storeRev
    /\ storeLastEdit' = IF ok THEN [tool |-> tool, requests |-> requests]
                        ELSE storeLastEdit
    /\ UNCHANGED storeFiles

(***************************************************************************)
(* update-doc                                                              *)
(***************************************************************************)
\* the error shown without its message
ErrorToStringNameOnly(message) == Text("Error", <<>>)

\* `${error}` of an Error: its name, then its message
ErrorToString(message) == Text("Error: {0}", <<message>>)

UpdateArgs(docId, content, replaceAll) ==
    [docId |-> docId, content |-> content, replaceAll |-> replaceAll]

\* one counted for each text run, not its length
DocumentLengthRunsCounted(elements, documentLength) ==
    documentLength
    + Cardinality({ j \in 1..Len(elements) :
                      elements[j].kind = "textRun" /\ elements[j].content # <<>> })

\* the inner loop: the lengths of the text runs that have content
RECURSIVE DocumentLengthRuns(_, _)
DocumentLengthRuns(elements, documentLength) ==
    IF elements = <<>> THEN documentLength
    ELSE LET paragraphElement == Head(elements)
         IN DocumentLengthRuns(Tail(elements),
                IF paragraphElement.kind = "textRun" /\ paragraphElement.content # <<>>
                THEN documentLength + Len(paragraphElement.content)
                ELSE documentLength)

\* the outer loop over doc.data.body.content: the paragraphs only
RECURSIVE DocumentLengthElements(_, _)
DocumentLengthElements(content, documentLength) ==
    IF content = <<>> THEN documentLength
    ELSE LET element == Head(content)
         IN DocumentLengthElements(Tail(content),
                IF element.kind = "paragraph"
                THEN DocumentLengthRuns(element.elements, documentLength)
                ELSE documentLength)

\* a length that is not computed from the document
DocumentLengthOfNewDocument(d) == 1

\* documentLength: 1, then the text runs of the document just fetched
DocumentLength(d) ==
    IF d.body = "present" THEN DocumentLengthElements(d.content, 1) ELSE 1

\* the insertion before the deletion
UpdateDocRequestsInsertFirst(documentLength, content, replaceAll) ==
    IF replaceAll
    THEN << InsertTextRequest(1, content),
            DeleteContentRangeRequest(1, documentLength) >>
    ELSE << InsertTextRequest(documentLength, content) >>

\* the requests of the two branches
UpdateDocRequests(documentLength, content, replaceAll) ==
    IF replaceAll
    THEN << DeleteContentRangeRequest(1, documentLength),
            InsertTextRequest(1, content) >>
    ELSE << InsertTextRequest(documentLength, content) >>

\* update-doc up to its first await: the docId check, then documents.get
UpdateDoc(docId, content, replaceAll) ==
    /\ Invoke("update-doc", UpdateArgs(docId, content, replaceAll), MaxUpdates)
    /\ requests' = <<>>
    /\ IF docId = ""
       THEN Return(Failure("Error updating document: ",
                           ErrorToString(Text("Document ID is required", <<>>))))
       ELSE pc' = "get" /\ result' = NoResult

\* documents.get returns or throws; the length, then batchUpdate
UpdateDocGet ==
    /\ pc = "get" /\ tool = "update-doc"
    /\ \E ok \in StoreOutcomes :
        /\ calls' = Append(calls, Call("documents.get", ok))
        /\ IF ~ok
           THEN /\ Return(Failure("Error updating document: ",
                                  ErrorToString(StoreError("documents.get"))))
                /\ UNCHANGED <<doc, requests>>
           ELSE /\ doc' = storeDoc
                /\ requests' = UpdateDocRequests(DocumentLength(storeDoc),
                                                 args.content, args.replaceAll)
                /\ pc' = "batchUpdate" /\ result' = NoResult
    /\ UNCHANGED <<server, storeDoc, storeRev, storeFiles, storeLastEdit, before, tool, args,
                   targetRange>>

\* the two requests of a replacement, each in a batch of its own
UpdateDocBatchUpdateOneByOne ==
    /\ pc = "batchUpdate" /\ tool = "update-doc"
    /\ \E ok \in StoreOutcomes :
        /\ ok => StoreApply(storeDoc, requests).ok
        /\ calls' = Append(calls, Call("documents.batchUpdate", ok))
        /\ StoreTakes(ok)
        /\ IF ok /\ args.replaceAll /\ calls = <<Call("documents.get", TRUE)>>
           THEN pc' = "batchUpdate" /\ result' = NoResult
           ELSE IF ok
                THEN Return(Success(Text("Document updated successfully!",
                                         <<args.docId>>)))
                ELSE Return(Failure("Error updating document: ",
                                    ErrorToString(StoreError("documents.batchUpdate"))))
    /\ UNCHANGED <<server, before, tool, args, doc, targetRange, requests>>

\* documents.batchUpdate returns or throws; it throws when the file is gone or
\* the batch cannot be applied
UpdateDocBatchUpdate ==
    /\ pc = "batchUpdate" /\ tool = "update-doc"
    /\ \E ok \in StoreOutcomes :
        /\ ok => StoreApply(storeDoc, requests).ok
        /\ calls' = Append(calls, Call("documents.batchUpdate", ok))
        /\ StoreTakes(ok)
        /\ IF ok
           THEN Return(Success(Text("Document updated successfully!",
                                    <<args.docId>>)))
           ELSE Return(Failure("Error updating document: ",
                               ErrorToString(StoreError("documents.batchUpdate"))))
    /\ UNCHANGED <<server, before, tool, args, doc, targetRange, requests>>

(***************************************************************************)
(* insert-text-at-index, delete-range, insert-page-break                   *)
(***************************************************************************)
\* insert-text-at-index: documents.batchUpdate at once
InsertTextAtIndex(textToInsert, index) ==
    /\ Invoke("insert-text-at-index",
              [textToInsert |-> textToInsert, index |-> index], MaxRev)
    /\ requests' = << InsertTextRequest(index, textToInsert) >>
    /\ pc' = "batchUpdate" /\ result' = NoResult

InsertTextAtIndexBatchUpdate ==
    /\ pc = "batchUpdate" /\ tool = "insert-text-at-index"
    /\ \E ok \in StoreOutcomes :
        /\ ok => StoreApply(storeDoc, requests).ok
        /\ calls' = Append(calls, Call("documents.batchUpdate", ok))
        /\ StoreTakes(ok)
        /\ IF ok
           THEN Return(Success(Text("Text inserted successfully at index {0}!",
                                    <<args.index, args.textToInsert>>)))
           ELSE Return(Failure("Error inserting text: ",
                               StoreError("documents.batchUpdate")))
    /\ UNCHANGED <<server, before, tool, args, doc, targetRange, requests>>

\* the check that lets an empty range through
IsBackwardRange(startIndex, endIndex) == endIndex < startIndex

\* endIndex <= startIndex
IsEmptyOrBackwardRange(startIndex, endIndex) == endIndex <= startIndex

\* delete-range up to its first await: the check of the range, then
\* documents.batchUpdate
DeleteRange(startIndex, endIndex) ==
    /\ Invoke("delete-range", [startIndex |-> startIndex, endIndex |-> endIndex],
              MaxRev)
    /\ IF IsEmptyOrBackwardRange(startIndex, endIndex)
       THEN /\ requests' = <<>>
            /\ Return(Failure("Error deleting range: ",
                  Text("End index must be greater than start index for deletion",
                       <<>>)))
       ELSE /\ requests' = << DeleteContentRangeRequest(startIndex, endIndex) >>
            /\ pc' = "batchUpdate" /\ result' = NoResult

DeleteRangeBatchUpdate ==
    /\ pc = "batchUpdate" /\ tool = "delete-range"
    /\ \E ok \in StoreOutcomes :
        /\ ok => StoreApply(storeDoc, requests).ok
        /\ calls' = Append(calls, Call("documents.batchUpdate", ok))
        /\ StoreTakes(ok)
        /\ IF ok
           THEN Return(Success(Text("Content deleted successfully!",
                                    <<args.startIndex, args.endIndex>>)))
           ELSE Return(Failure("Error deleting range: ",
                               StoreError("documents.batchUpdate")))
    /\ UNCHANGED <<server, before, tool, args, doc, targetRange, requests>>

\* insert-page-break: documents.batchUpdate at once
InsertPageBreak(index) ==
    /\ Invoke("insert-page-break", [index |-> index], MaxRev)
    /\ requests' = << InsertPageBreakRequest(index) >>
    /\ pc' = "batchUpdate" /\ result' = NoResult

\* a handler whose store call is outside its try block
InsertPageBreakBatchUpdateUncaught ==
    /\ pc = "batchUpdate" /\ tool = "insert-page-break"
    /\ \E ok \in StoreOutcomes :
        /\ ok => StoreApply(storeDoc, requests).ok
        /\ calls' = Append(calls, Call("documents.batchUpdate", ok))
        /\ StoreTakes(ok)
        /\ IF ok
           THEN Return(Success(Text("Page break inserted successfully at index {0}!",
                                    <<args.index>>)))
           ELSE pc' = "thrown" /\ result' = NoResult
    /\ UNCHANGED <<server, before, tool, args, doc, targetRange, requests>>

InsertPageBreakBatchUpdate ==
    /\ pc = "batchUpdate" /\ tool = "insert-page-break"
    /\ \E ok \in StoreOutcomes :
        /\ ok => StoreApply(storeDoc, requests).ok
        /\ calls' = Append(calls, Call("documents.batchUpdate", ok))
        /\ StoreTakes(ok)
        /\ IF ok
           THEN Return(Success(Text("Page break inserted successfully at index {0}!",
                                    <<args.index>>)))
           ELSE Return(Failure("Error inserting page break: ",
                               StoreError("documents.batchUpdate")))
    /\ UNCHANGED <<server, before, tool, args, doc, targetRange, requests>>

(***************************************************************************)
(* create-doc, delete-doc                                                  *)
(***************************************************************************)
\* create-doc up to its first await: documents.create
CreateDoc(title, content) ==
    /\ Invoke("create-doc", [title |-> title, content |-> content], MaxRev)
    /\ requests' = <<>>
    /\ pc' = "create" /\ result' = NoResult

\* documents.create returns a document, returns one without an id, or throws;
\* then the insertion of the content, if there is any
CreateDocCreate ==
    /\ pc = "create" /\ tool = "create-doc"
    /\ \E outcome \in {"created", "no id", "throws"} :
        /\ calls' = Append(calls, Call("documents.create", outcome # "throws"))
        /\ CASE outcome = "throws" ->
                  /\ Return(Failure("Error creating document: ",
                                    ErrorToString(StoreError("documents.create"))))
                  /\ UNCHANGED <<storeFiles, requests>>
             [] outcome = "no id" ->
                  /\ Return(Failure("Error creating document: ",
                        ErrorToString(Text(
                          "Failed to create document - no document ID returned",
                          <<>>))))
                  /\ UNCHANGED <<storeFiles, requests>>
             [] outcome = "created" ->
                  /\ storeFiles' = [storeFiles EXCEPT !.created =
                        Append(@, [title |-> args.title, text |-> <<>>])]
                  /\ IF args.content # <<>>
                     THEN /\ requests' = << InsertTextRequest(1, args.content) >>
                          /\ pc' = "batchUpdate" /\ result' = NoResult
                     ELSE /\ UNCHANGED requests
                          /\ Return(Success(Text("Document created successfully!",
                               <<args.title, Len(storeFiles.created) + 1>>)))
    /\ UNCHANGED <<server, storeDoc, storeRev, storeLastEdit, before, tool, args, doc,
                   targetRange>>

\* documents.batchUpdate on the new document returns or throws
CreateDocBatchUpdate ==
    /\ pc = "batchUpdate" /\ tool = "create-doc"
    /\ \E ok \in BOOLEAN :
        /\ calls' = Append(calls, Call("documents.batchUpdate", ok))
        /\ storeFiles' = IF ok
                         THEN [storeFiles EXCEPT
                                 !.created[Len(storeFiles.created)].text = args.content]
                         ELSE storeFiles
        /\ IF ok
           THEN Return(Success(Text("Document created successfully!",
                                    <<args.title, Len(storeFiles.created)>>)))
           ELSE Return(Failure("Error creating document: ",
                               ErrorToString(StoreError("documents.batchUpdate"))))
    /\ UNCHANGED <<server, storeDoc, storeRev, storeLastEdit, before, tool, args, doc,
                   targetRange, requests>>

\* delete-doc up to its first await: documents.get, for the title
DeleteDoc(docId) ==
    /\ Invoke("delete-doc", [docId |-> docId], MaxRev)
    /\ requests' = <<>>
    /\ pc' = "get" /\ result' = NoResult

\* the title is not read: files.delete follows whatever the get did
DeleteDocGetIgnored ==
    /\ pc = "get" /\ tool = "delete-doc"
    /\ \E ok \in StoreOutcomes :
        /\ calls' = Append(calls, Call("documents.get", ok))
        /\ doc' = IF ok THEN storeDoc ELSE doc
        /\ pc' = "delete" /\ result' = NoResult
    /\ UNCHANGED <<server, storeDoc, storeRev, storeFiles, storeLastEdit, before, tool, args,
                   targetRange, requests>>

\* documents.get returns or throws; then files.delete
DeleteDocGet ==
    /\ pc = "get" /\ tool = "delete-doc"
    /\ \E ok \in StoreOutcomes :
        /\ calls' = Append(calls, Call("documents.get", ok))
        /\ IF ~ok
           THEN /\ Return(Failure("Error deleting document: ",
                                  ErrorToString(StoreError("documents.get"))))
                /\ UNCHANGED doc
           ELSE /\ doc' = storeDoc
                /\ pc' = "delete" /\ result' = NoResult
    /\ UNCHANGED <<server, storeDoc, storeRev, storeFiles, storeLastEdit, before, tool, args,
                   targetRange, requests>>

\* files.delete returns or throws
DeleteDocDelete ==
    /\ pc = "delete" /\ tool = "delete-doc"
    /\ \E ok \in StoreOutcomes :
        /\ calls' = Append(calls, Call("files.delete", ok))
        /\ storeFiles' = IF ok THEN [storeFiles EXCEPT !.exists = FALSE]
                         ELSE storeFiles
        /\ IF ok
           THEN Return(Success(Text("Document \"{0}\" (ID: {1}) has been successfully deleted.",
                                    <<storeFiles.title, args.docId>>)))
           ELSE Return(Failure("Error deleting document: ",
                               ErrorToString(StoreError("files.delete"))))
    /\ UNCHANGED <<server, storeDoc, storeRev, storeLastEdit, before, tool, args, doc,
                   targetRange, requests>>

(***************************************************************************)
(* list-comments and add-comment: the handlers return at once              *)
(***************************************************************************)
\* the comments API taken as there: an empty list is a success
CommentsListedEmpty == Success(Text("No comments found in this document.", <<>>))

\* the result both handlers return
CommentsNotAvailable ==
    [isError |-> TRUE,
     text |-> Text("Comment management is not available in the current Google Docs API version. This feature requires a newer API version or different authentication scope.",
                   <<>>)]

ListComments(docId) ==
    /\ Invoke("list-comments", [docId |-> docId], MaxRev)
    /\ requests' = <<>>
    /\ Return(CommentsNotAvailable)

AddComment(docId, textToFind, commentText) ==
    /\ Invoke("add-comment",
              [docId |-> docId, textToFind |-> textToFind, commentText |-> commentText],
              MaxRev)
    /\ requests' = <<>>
    /\ Return(CommentsNotAvailable)

(***************************************************************************)
(* Specification: update-doc, call after call                              *)
(***************************************************************************)
\* "", "b", "ba", "bab", ...
Contents ==
    { [i \in 1..n |-> IF i % 2 = 1 THEN "b" ELSE "a"] : n \in 0..MaxContentLen }

DocIds == {"", "doc"}

\* a new document: the section break and one empty paragraph
NewDoc == MkDoc(<< << <<>> >> >>)

UpdateDocs == {NewDoc, StyleDoc, ThreeParaDoc, MixedDoc, NoBodyDoc, NoContentDoc}

InitUpdate ==
    /\ storeDoc \in UpdateDocs
    /\ storeRev = 0
    /\ storeFiles = NoFiles
    /\ storeLastEdit = NoEdit
    /\ server = Serving
    /\ before = StoreState
    /\ pc = "idle"
    /\ tool = "none"
    /\ args = Args(<<>>, 1, NoOptions, "", 0, 1)
    /\ doc = NoDoc
    /\ targetRange = Null
    /\ requests = <<>>
    /\ calls = <<>>
    /\ result = NoResult

NextUpdate ==
    \/ \E d \in DocIds, c \in Contents, r \in BOOLEAN : UpdateDoc(d, c, r)
    \/ UpdateDocGet
    \/ UpdateDocBatchUpdate
    \/ Deliver

SpecUpdate == InitUpdate /\ [][NextUpdate]_vars

(***************************************************************************)
(* Specification: every tool on a few documents                            *)
(***************************************************************************)
Indices == 1..MaxIndex
Titles == {"Notes"}
\* a body whose content is the empty array
EmptyContentDoc == [body |-> "present", content |-> <<>>]

ToolDocs == {StyleDoc, MixedDoc, NoBodyDoc, NoContentDoc, EmptyContentDoc}
ToolTargets == { <<"a">>, <<"b", "b">> }
ToolInstances == 1..2

InitTools ==
    /\ storeDoc \in ToolDocs
    /\ storeRev = 0
    /\ storeFiles = NoFiles
    /\ storeLastEdit = NoEdit
    /\ server = Serving
    /\ before = StoreState
    /\ pc = "idle"
    /\ tool = "none"
    /\ args = Args(<<>>, 1, NoOptions, "", 0, 1)
    /\ doc = NoDoc
    /\ targetRange = Null
    /\ requests = <<>>
    /\ calls = <<>>
    /\ result = NoResult

\* a store call of the running invocation returns or throws
StoreReturns ==
    \/ ApplyTextStyleGet
    \/ ApplyTextStyleBatchUpdate
    \/ ApplyParagraphStyleGet
    \/ ApplyParagraphStyleBatchUpdate
    \/ ApplyListStyleGet
    \/ ApplyListStyleBatchUpdate
    \/ UpdateDocGet
    \/ UpdateDocBatchUpdate
    \/ InsertTextAtIndexBatchUpdate
    \/ DeleteRangeBatchUpdate
    \/ InsertPageBreakBatchUpdate
    \/ CreateDocCreate
    \/ CreateDocBatchUpdate
    \/ DeleteDocGet
    \/ DeleteDocDelete

NextTools ==
    \/ \E t \in ToolTargets, k \in ToolInstances, o \in FewTextOptions :
          ApplyTextStyle(t, k, o)
    \/ \E t \in ToolTargets, k \in ToolInstances, o \in FewParagraphOptions :
          ApplyParagraphStyle(t, k, o)
    \/ \E t \in ToolTargets, k \in ToolInstances, l \in FewListOptions :
          ApplyListStyle(t, k, l[1], l[2], l[3])
    \/ \E d \in DocIds, c \in Contents, r \in BOOLEAN : UpdateDoc(d, c, r)
    \/ \E c \in Contents \ {<<>>}, i \in Indices : InsertTextAtIndex(c, i)
    \/ \E s \in Indices, e \in Indices : DeleteRange(s, e)
    \/ \E i \in Indices : InsertPageBreak(i)
    \/ \E t \in Titles, c \in Contents : CreateDoc(t, c)
    \/ \E d \in DocIds \ {""} : DeleteDoc(d)
    \/ \E d \in DocIds : ListComments(d)
    \/ \E d \in DocIds, t \in ToolTargets, c \in Contents \ {<<>>} : AddComment(d, t, c)
    \/ StoreReturns
    \/ Deliver

SpecTools == InitTools /\ [][NextTools]_vars

\* a store call that was made returns or throws in the end
FairSpecTools == SpecTools /\ WF_vars(StoreReturns)

(***************************************************************************)
(* The other editors of the document.  The store serves them as it serves  *)
(* the tools: an edit of theirs may land between a tool's documents.get    *)
(* and its documents.batchUpdate, and nothing in the tool's batch names    *)
(* the revision it was computed from.                                      *)
(***************************************************************************)
MaxExternalEdits == 1

\* one character typed, or one removed, by another editor
ExternalRequests(d) ==
    { InsertTextRequest(i, <<c>>) : i \in 1..(Len(CellsOf(d)) + 1), c \in Alphabet }
    \cup { DeleteContentRangeRequest(i, i + 1) : i \in 1..Len(CellsOf(d)) }

ExternalEdit ==
    /\ storeFiles.exists
    /\ storeRev < MaxExternalEdits
    /\ \E r \in ExternalRequests(storeDoc) :
        /\ StoreApply(storeDoc, <<r>>).ok
        /\ storeDoc' = StoreApply(storeDoc, <<r>>).doc
        /\ storeLastEdit' = [tool |-> "external", requests |-> <<r>>]
    /\ storeRev' = storeRev + 1
    /\ UNCHANGED <<server, storeFiles, before, pc, tool, args, doc, targetRange,
                   requests, calls, result>>

RaceDocs == {StyleDoc, ThreeParaDoc}
RaceTargets == { <<>>, <<"a">>, <<"b", "a">> }

InitRace ==
    /\ storeDoc \in RaceDocs
    /\ storeRev = 0
    /\ storeFiles = NoFiles
    /\ storeLastEdit = NoEdit
    /\ server = Serving
    /\ before = StoreState
    /\ pc = "idle"
    /\ tool = "none"
    /\ args = Args(<<>>, 1, NoOptions, "", 0, 1)
    /\ doc = NoDoc
    /\ targetRange = Null
    /\ requests = <<>>
    /\ calls = <<>>
    /\ result = NoResult

NextRace ==
    \/ \E t \in RaceTargets, k \in ToolInstances, o \in FewTextOptions :
          ApplyTextStyle(t, k, o)
    \/ ApplyTextStyleGet
    \/ ApplyTextStyleBatchUpdate
    \/ ExternalEdit
    \/ Deliver

SpecRace == InitRace /\ [][NextRace]_vars

(***************************************************************************)
(* main: the process from its start to the connected server.  Requests are *)
(* served once server.connect has returned.                                *)
(***************************************************************************)

\* main up to its first await: without the credentials file it exits
Main ==
    /\ server.pc = "start"
    /\ \E configured \in BOOLEAN :
        server' = IF configured
                  THEN [server EXCEPT !.pc = "initApiClients",
                                      !.log = Append(@, "isAuthConfigured")]
                  ELSE Exit([server EXCEPT !.log = Append(@, "isAuthConfigured")], 1)
    /\ UNCHANGED <<storeDoc, storeRev, storeFiles, storeLastEdit, before, pc, tool,
                   args, doc, targetRange, requests, calls, result>>

\* the first n registrations, in the order of main
Registered(n) == SubSeq(Registrations, 1, n)

\* a throw of initApiClients left aside: main goes on without the handle
MainInitApiClientsUncaught ==
    /\ server.pc = "initApiClients"
    /\ \E ok \in BOOLEAN :
        server' = [server EXCEPT
                     !.pc = "connect",
                     !.clients = IF ok THEN "clients" ELSE @,
                     !.created = IF ok THEN @ + 1 ELSE @,
                     !.log = Append(@, "initApiClients") \o Registrations]
    /\ UNCHANGED <<storeDoc, storeRev, storeFiles, storeLastEdit, before, pc, tool,
                   args, doc, targetRange, requests, calls, result>>

\* initApiClients returns the handle or throws; with the handle the server
\* is created and the resources, the prompts and the tools are registered, a
\* throw of a registration ending the process
MainInitApiClients ==
    /\ server.pc = "initApiClients"
    /\ \E ok \in BOOLEAN, n \in 0..Len(Registrations) :
        server' = IF ~ok
                  THEN Exit([server EXCEPT !.log = Append(@, "initApiClients")], 1)
                  ELSE LET s == [server EXCEPT
                                   !.clients = "clients",
                                   !.created = @ + 1,
                                   !.log = Append(@, "initApiClients") \o Registered(n)]
                       IN IF n < Len(Registrations)
                          THEN Exit(s, 1)
                          ELSE [s EXCEPT !.pc = "connect"]
    /\ UNCHANGED <<storeDoc, storeRev, storeFiles, storeLastEdit, before, pc, tool,
                   args, doc, targetRange, requests, calls, result>>

\* server.connect returns or throws
MainConnect ==
    /\ server.pc = "connect"
    /\ \E ok \in BOOLEAN :
        server' = IF ok
                  THEN [server EXCEPT !.pc = "running", !.connected = TRUE,
                                      !.log = Append(@, "connect")]
                  ELSE Exit([server EXCEPT !.log = Append(@, "connect")], 1)
    /\ UNCHANGED <<storeDoc, storeRev, storeFiles, storeLastEdit, before, pc, tool,
                   args, doc, targetRange, requests, calls, result>>

InitStartup ==
    /\ storeDoc \in ToolDocs
    /\ storeRev = 0
    /\ storeFiles = NoFiles
    /\ storeLastEdit = NoEdit
    /\ server = Started
    /\ before = StoreState
    /\ pc = "idle"
    /\ tool = "none"
    /\ args = Args(<<>>, 1, NoOptions, "", 0, 1)
    /\ doc = NoDoc
    /\ targetRange = Null
    /\ requests = <<>>
    /\ calls = <<>>
    /\ result = NoResult

NextStartup ==
    \/ Main
    \/ MainInitApiClients
    \/ MainConnect
    \/ NextTools

SpecStartup == InitStartup /\ [][NextStartup]_vars

(***************************************************************************)
(* read-doc-advanced in its default format, text.  The formats json and    *)
(* markdown, which build their text from the styles and the whole tree of  *)
(* the document, are not among the inputs.                                 *)
(***************************************************************************)
MaxReadLength == 4

\* maxLength: undefined, or the number supplied
Undefined == [supplied |-> FALSE, value |-> 0]
Limit(n) == [supplied |-> TRUE, value |-> n]

\* a number as a condition: 0 is false
Truthy(m) == m.supplied /\ m.value # 0

\* s.substring(0, n)
Substring0(s, n) ==
    SubSeq(s, 1, IF n < 0 THEN 0 ELSE IF n > Len(s) THEN Len(s) ELSE n)

\* the contents of the text runs of a paragraph, one after the other
RECURSIVE RunsText(_, _)
RunsText(elements, j) ==
    IF j > Len(elements) THEN <<>>
    ELSE (IF elements[j].kind = "textRun" THEN elements[j].content ELSE <<>>)
         \o RunsText(elements, j + 1)

\* textContent of the text format
RECURSIVE ElementsText(_, _)
ElementsText(content, i) ==
    IF i > Len(content) THEN <<>>
    ELSE (IF content[i].kind = "paragraph" THEN RunsText(content[i].elements, 1)
          ELSE <<>>)
         \o ElementsText(content, i + 1)

TextContent(d) == IF d.body = "present" THEN ElementsText(d.content, 1) ELSE <<>>

\* the result of the text format
ReadTextResult(textContent, maxLength) ==
    IF Truthy(maxLength) /\ Len(textContent) > maxLength.value
    THEN Success(Text("Content (truncated to {0} chars of {1} total):\n---\n{2}\n\n... [Document continues for {3} more characters]",
                      <<maxLength.value, Len(textContent),
                        Substring0(textContent, maxLength.value),
                        Len(textContent) - maxLength.value>>))
    ELSE Success(Text("Content ({0} characters):\n---\n{1}",
                      <<Len(textContent), textContent>>))

ReadDocAdvanced(docId, format, maxLength) ==
    /\ Invoke("read-doc-advanced",
              [docId |-> docId, format |-> format, maxLength |-> maxLength], MaxRev)
    /\ requests' = <<>>
    /\ pc' = "get" /\ result' = NoResult

\* documents.get returns or throws; the text is built and returned
ReadDocAdvancedGet ==
    /\ pc = "get" /\ tool = "read-doc-advanced"
    /\ \E ok \in StoreOutcomes :
        /\ calls' = Append(calls, Call("documents.get", ok))
        /\ IF ~ok
           THEN /\ Return(Failure("Error reading document: ", StoreError("documents.get")))
                /\ UNCHANGED doc
           ELSE /\ doc' = storeDoc
                /\ Return(ReadTextResult(TextContent(storeDoc), args.maxLength))
    /\ UNCHANGED <<server, storeDoc, storeRev, storeFiles, storeLastEdit, before, tool, args,
                   targetRange, requests>>

MaxLengths == {Undefined} \cup { Limit(n) : n \in (-1)..MaxReadLength }
ReadDocs == ToolDocs \cup {ThreeParaDoc, HelloDoc}

InitRead ==
    /\ storeDoc \in ReadDocs
    /\ storeRev = 0
    /\ storeFiles = NoFiles
    /\ storeLastEdit = NoEdit
    /\ server = Serving
    /\ before = StoreState
    /\ pc = "idle"
    /\ tool = "none"
    /\ args = Args(<<>>, 1, NoOptions, "", 0, 1)
    /\ doc = NoDoc
    /\ targetRange = Null
    /\ requests = <<>>
    /\ calls = <<>>
    /\ result = NoResult

NextRead ==
    \/ \E d \in DocIds \ {""}, m \in MaxLengths : ReadDocAdvanced(d, "text", m)
    \/ ReadDocAdvancedGet
    \/ Deliver

SpecRead == InitRead /\ [][NextRead]_vars

(***************************************************************************)
(* Properties                                                              *)
(***************************************************************************)
FormattingTools == {"apply-text-style", "apply-paragraph-style", "apply-list-style"}

\* documents.get of the running invocation has returned a document
Fetched == doc # NoDoc

\* the running invocation has handed its requests to documents.batchUpdate
Submitted ==
    pc = "batchUpdate" \/ \E i \in 1..Len(calls) : calls[i].op = "documents.batchUpdate"

\* the text runs of the paragraphs of d in document order, each with the
\* position of its paragraph in body.content
RECURSIVE RunsFrom(_, _)
RunsFrom(content, i) ==
    IF i > Len(content) THEN <<>>
    ELSE (IF content[i].kind = "paragraph"
          THEN [j \in 1..Len(content[i].elements) |->
                   [run |-> content[i].elements[j], para |-> i]]
          ELSE <<>>)
         \o RunsFrom(content, i + 1)

TextRunsOf(d) ==
    LET IsText(x) == x.run.kind = "textRun" /\ x.run.content # <<>>
    IN IF d.body = "present" THEN SelectSeq(RunsFrom(d.content, 1), IsText) ELSE <<>>

\* the text runs that contain t
MatchingRuns(d, t) ==
    LET Has(x) == includes(x.run.content, t)
    IN SelectSeq(TextRunsOf(d), Has)

\* the positions in body.content of the paragraphs with a run that contains t
MatchingParagraphs(d, t) ==
    LET Has(i) == \E j \in 1..Len(MatchingRuns(d, t)) : MatchingRuns(d, t)[j].para = i
    IN IF d.body = "present"
       THEN SelectSeq([i \in 1..Len(d.content) |-> i], Has) ELSE <<>>

\* the ranges of all occurrences of t in the text runs of d
OccurrenceRanges(d, t) ==
    UNION { { <<TextRunsOf(d)[j].run.startIndex + i,
                TextRunsOf(d)[j].run.startIndex + i + Len(t)>>
              : i \in Occurrences(TextRunsOf(d)[j].run.content, t) }
            : j \in 1..Len(TextRunsOf(d)) }

Disjoint(r1, r2) == r1.endIndex <= r2.startIndex \/ r2.endIndex <= r1.startIndex

\* offsets of d: the end of its last element, the reserved offset 0 not counted
DocLength(d) ==
    IF d.body = "present" /\ d.content # <<>>
    THEN d.content[Len(d.content)].endIndex - 1 ELSE 0

\* C1: in apply-text-style and apply-list-style, for a non-empty text that
\* occurs n times in the text runs of the fetched document, instance k
\* (1 <= k <= n) resolves to the range of an occurrence that overlaps the range
\* of no other instance, and k < 1 or k > n resolves to not found.
C1_EveryOccurrenceResolves ==
    (tool \in {"apply-text-style", "apply-list-style"} /\ Fetched
       /\ args.textToFind # <<>>)
    => LET t == args.textToFind
           k == args.matchInstance
           n == Cardinality(OccurrenceRanges(doc, t))
       IN IF 1 <= k /\ k <= n
          THEN /\ targetRange.found
               /\ <<targetRange.startIndex, targetRange.endIndex>>
                     \in OccurrenceRanges(doc, t)
               /\ \A j \in (1..n) \ {k} :
                     TextTargetRange(doc, t, j).found
                     => Disjoint(TextTargetRange(doc, t, j), targetRange)
          ELSE ~targetRange.found

\* C2: on the document "Hello World. Hello Moon." held as one run at offset 1,
\* apply-text-style for "Hello", instance 2, resolves to the second "Hello":
\* 13 characters into the run, 5 characters long.
C2_SecondHelloInOneRun ==
    (tool = "apply-text-style" /\ doc = HelloDoc /\ args.textToFind = Hello
       /\ args.matchInstance = 2)
    => targetRange = Range(1 + 13, 1 + 13 + 5)

\* C3: every range a formatting tool resolves satisfies
\* startIndex < endIndex <= length(D) + 1.
C3_ResolvedRangeIsProper ==
    (tool \in FormattingTools /\ targetRange.found)
    => /\ targetRange.startIndex < targetRange.endIndex
       /\ targetRange.endIndex <= DocLength(doc) + 1

\* C4: apply-text-style and apply-paragraph-style called with no style
\* attribute have returned an error as soon as they are entered, with no store
\* call made or pending.
C4_NoStyleFailsBeforeStore ==
    (tool \in {"apply-text-style", "apply-paragraph-style"}
       /\ DOMAIN args.styleOptions = {})
    => pc = "done" /\ result.isError /\ calls = <<>> /\ ~Fetched

C4_Witness ==
    /\ tool = "apply-paragraph-style" /\ pc = "done"
    /\ DOMAIN args.styleOptions = {}
    /\ result.isError /\ calls = <<>>

\* C5: a formatting tool whose search ends without reaching the requested
\* instance returns an error whose message carries the requested instance and
\* the searched text, calls no batchUpdate and leaves the store as it was; a
\* matchInstance below 1 or above the number of occurrences is never reached.
C5_NotFoundBeforeMutation ==
    (tool \in FormattingTools /\ Fetched)
    => /\ (~targetRange.found =>
             /\ pc = "done" /\ result.isError
             /\ result.text.params[1].params = <<args.matchInstance, args.textToFind>>
             /\ ~Submitted
             /\ requests = <<>>
             /\ storeRev = before.rev /\ storeDoc = before.doc)
       /\ ((args.matchInstance < 1
            \/ args.matchInstance > Cardinality(OccurrenceRanges(doc, args.textToFind)))
           => ~targetRange.found)

C5_Witness ==
    /\ tool = "apply-list-style" /\ pc = "done" /\ Fetched
    /\ args.matchInstance = 2 /\ Len(MatchingRuns(doc, args.textToFind)) = 1
    /\ ~targetRange.found /\ result.isError /\ ~Submitted

\* C6 as stated: instance k of apply-paragraph-style selects the k-th paragraph
\* that contains the (non-empty) text in any run; a paragraph counts once
\* however many of its runs contain the text.
C6_CountsPerParagraph ==
    (tool = "apply-paragraph-style" /\ Fetched /\ args.textToFind # <<>>)
    => LET mp == MatchingParagraphs(doc, args.textToFind)
           k == args.matchInstance
       IN IF 1 <= k /\ k <= Len(mp)
          THEN targetRange = Range(doc.content[mp[k]].startIndex,
                                   doc.content[mp[k]].endIndex)
          ELSE ~targetRange.found

\* C6 amended: the counter of apply-paragraph-style advances once per text run
\* that contains the text (not once per paragraph, not once per occurrence
\* inside a run): instance k selects the paragraph of the k-th such run, and
\* there is no instance k when fewer than k runs contain the text.
C6_CountsPerMatchingRun ==
    (tool = "apply-paragraph-style" /\ Fetched)
    => LET mr == MatchingRuns(doc, args.textToFind)
           k == args.matchInstance
       IN IF 1 <= k /\ k <= Len(mr)
          THEN targetRange = Range(doc.content[mr[k].para].startIndex,
                                   doc.content[mr[k].para].endIndex)
          ELSE ~targetRange.found

\* two runs of one paragraph contain the text, and instance 2 is that paragraph
C6_Witness ==
    /\ tool = "apply-paragraph-style" /\ Fetched /\ targetRange.found
    /\ args.matchInstance = 2 /\ args.textToFind # <<>>
    /\ LET mr == MatchingRuns(doc, args.textToFind)
       IN Len(mr) >= 3 /\ mr[1].para = mr[2].para /\ mr[3].para # mr[2].para

\* C7: the range apply-paragraph-style resolves is the whole [startIndex,
\* endIndex) of a paragraph of the fetched tree that has the text in one of its
\* runs, wherever in the paragraph the text is; with three paragraphs and the
\* text only in the second, instance 1 is the second paragraph's range.
C7_WholeParagraphRange ==
    (tool = "apply-paragraph-style" /\ Fetched)
    => /\ targetRange.found =>
             \E i \in 1..Len(doc.content) :
                /\ doc.content[i].kind = "paragraph"
                /\ targetRange = Range(doc.content[i].startIndex,
                                       doc.content[i].endIndex)
                /\ \E j \in 1..Len(doc.content[i].elements) :
                      includes(doc.content[i].elements[j].content, args.textToFind)
       /\ (doc = ThreeParaDoc /\ args.textToFind = <<"a", "b">>
             /\ args.matchInstance = 1)
          => targetRange = Range(4, 9)

\* the text sits in the second run of the second of three paragraphs
C7_Witness ==
    /\ tool = "apply-paragraph-style" /\ pc = "batchUpdate"
    /\ doc = ThreeParaDoc /\ args.textToFind = <<"a", "b">> /\ args.matchInstance = 1
    /\ requests[1].range = [startIndex |-> 4, endIndex |-> 9]

\* the store's name of a style attribute of the tools
StoreName(a) ==
    CASE a = "fontFamily" -> "weightedFontFamily"
      [] a = "linkUrl" -> "link"
      [] OTHER -> a

\* C8: whatever subset of style attributes apply-text-style (apply-paragraph-
\* style) is given, what it submits is one updateTextStyle
\* (updateParagraphStyle) over the resolved range whose field mask lists, once
\* each, exactly the supplied attributes under the store's names, and whose
\* style object has exactly those keys; a resolved invocation with a style is
\* submitted, and success is returned only after the submission.
C8_MaskIsExactlyTheSuppliedAttributes ==
    (tool \in {"apply-text-style", "apply-paragraph-style"})
    => LET supplied == { StoreName(a) : a \in DOMAIN args.styleOptions }
       IN /\ Submitted =>
                /\ Len(requests) = 1
                /\ requests[1].type = (IF tool = "apply-text-style"
                                       THEN "updateTextStyle"
                                       ELSE "updateParagraphStyle")
                /\ requests[1].range = RangeOf(targetRange)
                /\ { requests[1].fields[i] : i \in 1..Len(requests[1].fields) }
                      = supplied
                /\ Len(requests[1].fields) = Cardinality(supplied)
                /\ DOMAIN requests[1].style = supplied
          /\ (Fetched /\ targetRange.found /\ supplied # {}) => Submitted
          /\ (pc = "done" /\ ~result.isError) => Submitted

\* three attributes, two of them renamed by the store, are supplied
C8_Witness ==
    /\ tool = "apply-text-style" /\ pc = "batchUpdate"
    /\ DOMAIN args.styleOptions = {"fontFamily", "linkUrl", "strikethrough"}
    /\ requests[1].fields = <<"strikethrough", "weightedFontFamily", "link">>

\* #RRGGBB, or RRGGBB: six hex digits behind an optional '#'
IsHexColor(c) ==
    \/ Len(c) = 7 /\ c[1] = "#" /\ \A i \in 2..7 : IsHexDigit(c[i])
    \/ Len(c) = 6 /\ \A i \in 1..6 : IsHexDigit(c[i])

\* the i-th byte (1..3) of a hex colour
ByteOf(c, i) ==
    LET digits == IF Len(c) = 7 THEN Tail(c) ELSE c
    IN 16 * HexValue(digits[2 * i - 1]) + HexValue(digits[2 * i])

\* x is byte / 255, and lies in [0, 1]
IsByteOver255(x, byte) ==
    /\ ~x.nan /\ x.den > 0
    /\ x.num * 255 = byte * x.den
    /\ 0 <= x.num /\ x.num <= x.den

IsRgb(rgb, r, g, b) ==
    /\ ~rgb.red.nan /\ rgb.red.num = r * rgb.red.den
    /\ ~rgb.green.nan /\ rgb.green.num = g * rgb.green.den
    /\ ~rgb.blue.nan /\ rgb.blue.num = b * rgb.blue.den

\* C9: for a foregroundColor or backgroundColor that is a hex colour, the red,
\* green and blue placed in the updateTextStyle are the three bytes divided by
\* 255, each in [0, 1]; #FF0000 is (1,0,0), #000000 is (0,0,0), #00FF00 is
\* (0,1,0).
C9_ColorBytesOver255 ==
    (tool = "apply-text-style" /\ Submitted)
    => \A a \in {"foregroundColor", "backgroundColor"} \cap DOMAIN args.styleOptions :
          LET c == args.styleOptions[a]
              rgb == requests[1].style[a].color.rgbColor
          IN /\ IsHexColor(c) =>
                   /\ IsByteOver255(rgb.red, ByteOf(c, 1))
                   /\ IsByteOver255(rgb.green, ByteOf(c, 2))
                   /\ IsByteOver255(rgb.blue, ByteOf(c, 3))
             /\ c = <<"#", "F", "F", "0", "0", "0", "0">> => IsRgb(rgb, 1, 0, 0)
             /\ c = <<"#", "0", "0", "0", "0", "0", "0">> => IsRgb(rgb, 0, 0, 0)
             /\ c = <<"#", "0", "0", "F", "F", "0", "0">> => IsRgb(rgb, 0, 1, 0)

\* a background colour with three different bytes, one in lower case
C9_Witness ==
    /\ tool = "apply-text-style" /\ pc = "batchUpdate"
    /\ DOMAIN args.styleOptions = {"backgroundColor"}
    /\ args.styleOptions.backgroundColor = <<"#", "8", "0", "7", "f", "F", "F">>
    /\ requests[1].style.backgroundColor.color.rgbColor.green = Num(127, 255)

\* C10: whatever listType, indentLevel and startNumber, the batch that
\* apply-list-style submits for a (non-empty) text it found holds exactly two
\* operations, the updateParagraphStyle of the indentation first and the
\* createParagraphBullets second.
C10_ListBatchIsIndentThenBullets ==
    (tool = "apply-list-style" /\ Submitted /\ args.textToFind # <<>>)
    => /\ Len(requests) = 2
       /\ requests[1].type = "updateParagraphStyle"
       /\ requests[2].type = "createParagraphBullets"

\* C11: apply-list-style asked for a numbered list that starts above 1 (on a
\* non-empty text) returns an error result: it never returns a success while
\* the start number has not been applied.
C11_StartNumberIsReported ==
    (tool = "apply-list-style" /\ pc = "done" /\ args.textToFind # <<>>
       /\ args.listType = "NUMBERED" /\ args.startNumber > 1)
    => result.isError

\* the paragraphs of d whose range encloses the range r
EnclosingParagraphs(d, r) ==
    IF d.body = "present"
    THEN { i \in 1..Len(d.content) :
             /\ d.content[i].kind = "paragraph"
             /\ d.content[i].startIndex <= r.startIndex
             /\ r.endIndex <= d.content[i].endIndex }
    ELSE {}

\* C12: the range in both requests of apply-list-style, the indentation and
\* the bullets, is the full range of the paragraph that encloses the matched
\* (non-empty) text, not the range of the matched characters.
C12_ListRangeIsTheParagraph ==
    (tool = "apply-list-style" /\ Submitted /\ args.textToFind # <<>>)
    => \E i \in EnclosingParagraphs(doc, targetRange) :
          LET paragraph == [startIndex |-> doc.content[i].startIndex,
                            endIndex |-> doc.content[i].endIndex]
          IN requests[1].range = paragraph /\ requests[2].range = paragraph

\* the characters of the text runs of d
TextLength(d) == SumLen([j \in 1..Len(TextRunsOf(d)) |-> TextRunsOf(d)[j].run.content])

\* documents.batchUpdate calls of the running invocation that have returned
BatchUpdatesReturned == { i \in 1..Len(calls) : calls[i].op = "documents.batchUpdate" }

\* the running invocation has handed the store exactly one batch
OneBatch == Cardinality(BatchUpdatesReturned) = (IF pc = "batchUpdate" THEN 0 ELSE 1)

\* the document was fetched by this invocation, from the store as it was
FetchedByThisCall ==
    /\ calls # <<>> /\ calls[1] = Call("documents.get", TRUE)
    /\ Fetched /\ doc = before.doc

\* C13: update-doc with replaceAll = true hands the store exactly one batch of
\* exactly two operations, in this order: deleteContentRange over [1, L), then
\* insertText of the content at index 1, where L is 1 plus the lengths of all
\* text runs of the document fetched by the same invocation.
C13_ReplaceIsDeleteThenInsert ==
    (tool = "update-doc" /\ args.replaceAll /\ Submitted)
    => /\ FetchedByThisCall
       /\ OneBatch
       /\ Len(requests) = 2
       /\ requests[1].type = "deleteContentRange"
       /\ requests[1].range = [startIndex |-> 1, endIndex |-> 1 + TextLength(doc)]
       /\ requests[2].type = "insertText"
       /\ requests[2].index = 1
       /\ requests[2].text = args.content

\* the text of "a" "ba\n" replaced by "ba": the deletion is over [1, 5)
C13_Witness ==
    /\ tool = "update-doc" /\ args.replaceAll /\ pc = "done" /\ ~result.isError
    /\ doc = StyleDoc /\ args.content = <<"b", "a">>
    /\ requests[1].range.endIndex = 5
    /\ TextLength(storeDoc) = 2

\* every element of the body is the section break or a paragraph of text runs
OnlyParagraphsOfTextRuns(d) ==
    /\ d.body = "present"
    /\ \A i \in 1..Len(d.content) :
          \/ d.content[i].kind = "sectionBreak"
          \/ /\ d.content[i].kind = "paragraph"
             /\ \A j \in 1..Len(d.content[i].elements) :
                   d.content[i].elements[j].kind = "textRun"

\* C14: update-doc with replaceAll false or omitted hands the store exactly one
\* batch of exactly one operation, insertText of the content at the index 1
\* plus the lengths of all text runs of the document fetched by the same
\* invocation; in a body of nothing but paragraphs of text runs that index is
\* the offset just past the last character.
C14_AppendIsOneInsertAtTheEnd ==
    (tool = "update-doc" /\ ~args.replaceAll /\ Submitted)
    => /\ FetchedByThisCall
       /\ OneBatch
       /\ Len(requests) = 1
       /\ requests[1].type = "insertText"
       /\ requests[1].index = 1 + TextLength(doc)
       /\ requests[1].text = args.content
       /\ OnlyParagraphsOfTextRuns(doc) => requests[1].index = DocLength(doc) + 1

\* "ba" appended to the three paragraphs "bb\n" "b" "bab\n" "a\n": index 11
C14_Witness ==
    /\ tool = "update-doc" /\ ~args.replaceAll /\ pc = "done" /\ ~result.isError
    /\ doc = ThreeParaDoc /\ args.content = <<"b", "a">>
    /\ requests[1].index = 11
    /\ TextLength(storeDoc) = 12

\* the end offset in the requests of update-doc
UpdateDocOffset ==
    IF args.replaceAll THEN requests[1].range.endIndex ELSE requests[1].index

\* the last batch that changed the text was an append of update-doc
LastEditWasAppend ==
    /\ storeLastEdit.tool = "update-doc"
    /\ Len(storeLastEdit.requests) = 1

\* C15: no length is carried from one update-doc call to the next: each call
\* does its own documents.get before its batchUpdate and takes the offset from
\* that fetch alone, so that the append which follows a successful append of
\* c1 uses the offset of that append plus the length of c1.
C15_LengthIsFetchedByEachCall ==
    (tool = "update-doc" /\ Submitted)
    => /\ FetchedByThisCall
       /\ \A i \in 2..Len(calls) : calls[i].op = "documents.batchUpdate"
       /\ UpdateDocOffset = 1 + TextLength(doc)
       /\ (~args.replaceAll /\ storeRev = before.rev /\ LastEditWasAppend)
          => requests[1].index = storeLastEdit.requests[1].index
                                 + Len(storeLastEdit.requests[1].text)

\* "ba" was appended to "a" "ba\n" at 5; the next append is at 7
C15_Witness ==
    /\ tool = "update-doc" /\ ~args.replaceAll /\ pc = "batchUpdate"
    /\ storeRev = 1 /\ LastEditWasAppend
    /\ storeLastEdit.requests[1] = [type |-> "insertText", index |-> 5,
                                    text |-> <<"b", "a">>]
    /\ requests[1].index = 7

\* C16: delete-range with endIndex <= startIndex (10 and 5, or both the same)
\* returns an error and makes no store call; with endIndex > startIndex it
\* hands the store exactly one deleteContentRange over [startIndex, endIndex).
C16_DeleteRangeChecksItsRange ==
    (tool = "delete-range")
    => IF args.endIndex <= args.startIndex
       THEN /\ pc = "done" /\ result.isError
            /\ calls = <<>> /\ requests = <<>>
            /\ StoreState = before
       ELSE /\ Submitted
            /\ OneBatch
            /\ \A i \in 1..Len(calls) : calls[i].op = "documents.batchUpdate"
            /\ requests = << [type |-> "deleteContentRange",
                              range |-> [startIndex |-> args.startIndex,
                                         endIndex |-> args.endIndex]] >>

\* startIndex = endIndex = 3: the error, and nothing reached the store
C16_Witness ==
    /\ tool = "delete-range" /\ args.startIndex = 3 /\ args.endIndex = 3
    /\ pc = "done" /\ result.isError /\ calls = <<>>

EditingTools ==
    {"update-doc", "insert-text-at-index", "delete-range", "insert-page-break"}

\* C17: an invocation of apply-text-style, apply-paragraph-style,
\* apply-list-style, update-doc, insert-text-at-index, delete-range or
\* insert-page-break makes at most one documents.batchUpdate call, which
\* carries all its operations, and its documents.get, if it makes one, comes
\* before that call.
C17_OneBatchAfterTheGet ==
    (tool \in FormattingTools \cup EditingTools)
    => /\ Cardinality(BatchUpdatesReturned) + (IF pc = "batchUpdate" THEN 1 ELSE 0) <= 1
       /\ pc = "get" => calls = <<>>
       /\ \A i \in 1..Len(calls) : calls[i].op = "documents.get" => i = 1
       /\ (tool \in EditingTools /\ pc = "done" /\ ~result.isError)
          => storeLastEdit = [tool |-> tool, requests |-> requests]

\* a replacement: the get, then one batch with the deletion and the insertion
C17_Witness ==
    /\ tool = "update-doc" /\ args.replaceAll /\ pc = "done"
    /\ calls = << Call("documents.get", TRUE), Call("documents.batchUpdate", TRUE) >>
    /\ Len(storeLastEdit.requests) = 2

\* the handler has been called and has not returned
Running == pc \notin {"idle", "done"}

\* a result as the handlers build it: a text, and isError true or not
Structured(r) == r.isError \in BOOLEAN /\ r.text.template # ""

\* C18: every invocation ends with a structured result: whatever a store call
\* does and whatever check fails, the handler comes to return a result that is
\* a success or has isError = true; no error leaves the handler.
C18_EveryCallReturnsAResult ==
    /\ [](pc \in {"idle", "get", "batchUpdate", "create", "delete", "done"})
    /\ [](pc = "done" => Structured(result))
    /\ (Running ~> pc = "done")

\* delete-doc: files.delete threw after the get, and the handler returned
C18_Witness ==
    /\ tool = "delete-doc" /\ pc = "done" /\ result.isError
    /\ calls = << Call("documents.get", TRUE), Call("files.delete", FALSE) >>

\* the text of r holds the message m, as it is or behind the error's name
HoldsMessage(r, m) ==
    /\ r.text.params # <<>>
    /\ r.text.params[1] \in {m, Text("Error: {0}", <<m>>)}

\* C19: a failure of the store is never swallowed: a tool returns a success
\* only if every store call it made succeeded, and if a get, batchUpdate,
\* create or delete call fails the result has isError = true and its text
\* holds the message of the store's error.
C19_StoreFailureIsReported ==
    (pc = "done")
    => /\ ~result.isError => \A i \in 1..Len(calls) : calls[i].ok
       /\ \A i \in 1..Len(calls) :
             ~calls[i].ok => /\ result.isError
                             /\ HoldsMessage(result, StoreError(calls[i].op))

\* update-doc: the batch was rejected after the get
C19_Witness ==
    /\ tool = "update-doc" /\ pc = "done" /\ result.isError
    /\ calls = << Call("documents.get", TRUE), Call("documents.batchUpdate", FALSE) >>
    /\ result.text.params[1] = Text("Error: {0}", <<StoreError("documents.batchUpdate")>>)

\* C20: an invocation that returns isError = true leaves the store as it was
\* when the invocation was called, create-doc with a content included.
C20_FailureLeavesTheStoreAsItWas ==
    (pc = "done" /\ result.isError) => StoreState = before

\* the body is absent, or it has no content, or its content is empty
HasNoContent(d) == d.body \in {"absent", "nocontent"} \/ (d.body = "present" /\ d.content = <<>>)

\* the not-found failure of the tool, for the instance and the text asked for
NotFoundFailure ==
    CASE tool = "apply-text-style" ->
           Failure("Error applying text style: ",
                   Text("Could not find instance {0} of text \"{1}\" in the document",
                        <<args.matchInstance, args.textToFind>>))
      [] tool = "apply-paragraph-style" ->
           Failure("Error applying paragraph style: ",
                   Text("Could not find instance {0} of text \"{1}\" in any paragraph",
                        <<args.matchInstance, args.textToFind>>))
      [] tool = "apply-list-style" ->
           Failure("Error applying list style: ",
                   Text("Could not find instance {0} of text \"{1}\" in the document",
                        <<args.matchInstance, args.textToFind>>))

\* C21: a fetched document whose body is absent or without content is an
\* empty sequence of fragments, not a fault: each formatting tool ends in its
\* not-found failure, whatever the text and the instance, and makes no
\* batchUpdate call; update-doc computes the length 1, so that an append
\* inserts at index 1.
C21_NoBodyIsAnEmptyDocument ==
    /\ (tool \in FormattingTools /\ Fetched /\ HasNoContent(doc))
       => /\ pc = "done"
          /\ result = NotFoundFailure
          /\ calls = << Call("documents.get", TRUE) >>
          /\ requests = <<>>
          /\ StoreState = before
    /\ (tool = "update-doc" /\ Fetched /\ HasNoContent(doc))
       => /\ Submitted
          /\ requests[Len(requests)].type = "insertText"
          /\ ~args.replaceAll => requests = << [type |-> "insertText", index |-> 1,
                                                text |-> args.content] >>
          /\ args.replaceAll => requests[1].range.endIndex = 1

\* apply-paragraph-style on a body without content: not found, no batch
C21_Witness ==
    /\ tool = "apply-paragraph-style" /\ doc = NoContentDoc
    /\ args.textToFind = <<"a">> /\ args.matchInstance = 1
    /\ pc = "done" /\ result.isError
    /\ calls = << Call("documents.get", TRUE) >>

\* the characters the store holds at the offsets of the range
TextAt(d, r) ==
    LET cells == CellsOf(d)
    IN IF r.startIndex >= 1 /\ r.endIndex - 1 <= Len(cells)
       THEN [k \in 1..(r.endIndex - r.startIndex) |-> cells[r.startIndex + k - 1].ch]
       ELSE << "beyond the body" >>

\* C22: apply-text-style hands its range to the store without a check of the
\* revision.  As long as the store holds the document that the get returned
\* (no edit of another editor came in between), the range the tool submits
\* covers exactly the text asked for.
C22_RangeCoversTheTextWithoutAnEdit ==
    (tool = "apply-text-style" /\ Submitted /\ storeDoc = doc)
    => /\ targetRange.found
       /\ \A i \in 1..Len(requests) : requests[i].range = RangeOf(targetRange)
       /\ TextAt(storeDoc, targetRange) = args.textToFind

\* another editor has changed the document after the get: the batch is on
\* its way with a range that no longer covers the text
C22_Witness ==
    /\ tool = "apply-text-style" /\ pc = "batchUpdate"
    /\ calls = << Call("documents.get", TRUE) >>
    /\ storeDoc # doc /\ storeRev > before.rev
    /\ requests # <<>> /\ requests[1].range = RangeOf(targetRange)
    /\ TextAt(doc, targetRange) = args.textToFind
    /\ TextAt(storeDoc, targetRange) # args.textToFind

\* the place of a step in main's log, 0 when main has not made it
Position(step) ==
    IF \E i \in 1..Len(server.log) : server.log[i] = step
    THEN CHOOSE i \in 1..Len(server.log) : server.log[i] = step
    ELSE 0

\* the step was made, and after the client handle was there
AfterTheClients(step) ==
    Position(step) > 0
    => /\ server.clients = "clients"
       /\ 0 < Position("initApiClients") /\ Position("initApiClients") < Position(step)

StartupOrder ==
    /\ server.created <= 1
    /\ (server.clients = "clients") <=> (server.created = 1)
    /\ \A i \in 1..Len(Registrations) : AfterTheClients(Registrations[i])
    /\ Position("connect") > 0
       => \A i \in 1..Len(Registrations) :
             0 < Position(Registrations[i])
             /\ Position(Registrations[i]) < Position("connect")
    /\ server.connected => server.clients = "clients" /\ Position("connect") > 0
    /\ (tool # "none" \/ pc # "idle") => server.connected /\ server.clients = "clients"
    /\ (server.pc \notin {"start", "initApiClients"} /\ server.clients = "none")
       => /\ server.exited /\ server.exitCode = 1 /\ ~server.connected
          /\ Position("connect") = 0
          /\ \A i \in 1..Len(Registrations) : Position(Registrations[i]) = 0
    /\ server.exited => server.exitCode = 1 /\ ~server.connected

\* C23: main creates the clients handle once, before anything is registered;
\* resources, prompts and tools are registered before the server connects, so
\* that no request is served without the handle; without the credentials
\* file, or when initApiClients fails, the process exits with code 1 and
\* never connects; the handle, once there, is never assigned again.
C23_StartupOrdering ==
    /\ []StartupOrder
    /\ [][server.clients # "none"
          => server'.clients = server.clients /\ server'.created = server.created]_vars

\* a request was served by the process that main has started
C23_Witness ==
    /\ server.connected /\ server.created = 1
    /\ server.log = <<"isAuthConfigured", "initApiClients">> \o Registrations \o <<"connect">>
    /\ tool = "delete-doc" /\ pc = "done" /\ ~result.isError

CommentTools == {"list-comments", "add-comment"}

\* C24: list-comments and add-comment are switched off: whatever the
\* arguments, the result has isError = true and carries the "not available"
\* message, and the handler makes no call to the store, which stays as it was.
C24_CommentToolsAreDisabled ==
    (tool \in CommentTools)
    => /\ pc = "done"
       /\ result.isError
       /\ result.text.template = "Comment management is not available in the current Google Docs API version. This feature requires a newer API version or different authentication scope."
       /\ calls = <<>> /\ requests = <<>>
       /\ StoreState = before

\* add-comment on a text of the document has returned
C24_Witness ==
    /\ tool = "add-comment" /\ pc = "done" /\ result.isError
    /\ args.docId = "doc" /\ args.textToFind = <<"a">> /\ storeDoc = StyleDoc
    /\ calls = <<>>

\* C25: the counter of the text search counts every occurrence of the text
\* inside a run: when the first run that holds the text holds it twice and
\* the next one holds it once, instance 3 resolves inside that second run.
C25_CounterCountsEveryOccurrence ==
    LET t == args.textToFind
        runs == MatchingRuns(doc, t)
    IN (/\ tool \in {"apply-text-style", "apply-list-style"} /\ Fetched
        /\ t # <<>> /\ args.matchInstance = 3
        /\ Len(runs) >= 2
        /\ Cardinality(Occurrences(runs[1].run.content, t)) = 2
        /\ Cardinality(Occurrences(runs[2].run.content, t)) = 1)
       => /\ targetRange.found
          /\ runs[2].run.startIndex <= targetRange.startIndex
          /\ targetRange.endIndex <= runs[2].run.startIndex + Len(runs[2].run.content)

\* C26: the indentation request of apply-list-style sets indentStart to
\* 36 * indentLevel points and indentFirstLine to 0 points, under the field
\* mask "indentStart,indentFirstLine", for each indentLevel from 0 to 8.
C26_IndentIs36PointsALevel ==
    (tool = "apply-list-style" /\ Submitted)
    => /\ args.indentLevel \in 0..8
       /\ requests[1].type = "updateParagraphStyle"
       /\ DOMAIN requests[1].style = {"indentStart", "indentFirstLine"}
       /\ requests[1].style["indentStart"]
             = [magnitude |-> 36 * args.indentLevel, unit |-> "PT"]
       /\ requests[1].style["indentFirstLine"] = [magnitude |-> 0, unit |-> "PT"]
       /\ requests[1].fields = <<"indentStart", "indentFirstLine">>

\* the deepest level: 288 points
C26_Witness ==
    /\ tool = "apply-list-style" /\ pc = "batchUpdate" /\ args.indentLevel = 8
    /\ requests[1].style["indentStart"].magnitude = 288

IncludedText(r) == IF Len(r.text.params) = 4 THEN r.text.params[3] ELSE r.text.params[2]

\* C29: read-doc-advanced in text format honours maxLength as a maximum: for
\* a supplied maxLength, 0 included, the text in the result is the prefix of
\* the concatenated text of the runs of length min(maxLength, total), and a
\* truncated result reports total - maxLength characters as remaining.
C29_MaxLengthIsAMaximum ==
    (/\ tool = "read-doc-advanced" /\ args.format = "text"
     /\ pc = "done" /\ ~result.isError
     /\ args.maxLength.supplied /\ args.maxLength.value >= 0)
    => LET total == Len(TextContent(doc))
           m == args.maxLength.value
       IN /\ IncludedText(result)
                = SubSeq(TextContent(doc), 1, IF m < total THEN m ELSE total)
          /\ Len(IncludedText(result)) < total
             => /\ Len(result.text.params) = 4
                /\ result.text.params[4] = total - m

\* C28: a deleteContentRange that a tool hands to the store has
\* startIndex < endIndex; update-doc with replaceAll on a document without
\* text, whose computed length is 1, does not hand over the empty range [1, 1).
C28_NoEmptyRangeIsSubmitted ==
    Submitted
    => \A i \in 1..Len(requests) :
          requests[i].type = "deleteContentRange"
          => requests[i].range.startIndex < requests[i].range.endIndex

\* C30: delete-doc fetches the document before it deletes it: files.delete is
\* called only after documents.get of the same invocation has returned; when
\* the get fails no delete is made and the file is still there; a success is
\* returned only after files.delete has returned.
C30_DeleteComesAfterTheGet ==
    (tool = "delete-doc")
    => /\ \A i \in 1..Len(calls) :
             calls[i].op = "files.delete"
             => i = 2 /\ calls[1] = Call("documents.get", TRUE)
       /\ pc = "delete" => calls = << Call("documents.get", TRUE) >>
       /\ (calls # <<>> /\ ~calls[1].ok)
          => /\ pc = "done" /\ result.isError
             /\ Len(calls) = 1
             /\ storeFiles = before.files
       /\ (pc = "done" /\ ~result.isError)
          => /\ calls = << Call("documents.get", TRUE), Call("files.delete", TRUE) >>
             /\ ~storeFiles.exists

\* the get failed on a document that is there: no delete, the file is kept
C30_Witness ==
    /\ tool = "delete-doc" /\ pc = "done" /\ result.isError
    /\ calls = << Call("documents.get", FALSE) >>
    /\ storeFiles.exists

====
